---- MODULE Spec2Model ----
(***************************************************************************)
(* OrbFIX test bench: the RISE frame codec (common/RISECommand.py), the    *)
(* incremental frame parser and frame reader (transport/serial_rs422.py),  *)
(* the command exchange (cmds/base.py) and the monitor daemon (monitor.py).*)
(* Bytes are integers 0..255; a bytes object is a sequence of them; the    *)
(* byte at Python index i of b is b[i + 1].                                *)
(***************************************************************************)
EXTENDS Integers, Sequences, FiniteSets, TLC

VARIABLES
    \* codec harness: one encode / tamper / decode round
    c_pc, c_cmd, c_sys, c_payload, c_buf, c_tamper, c_res,
    \* parser harness: one RiseParser fed a byte stream one call at a time
    parser, f_pc, f_scn, f_idx, f_ret, f_rets, f_frames, f_raised,
    \* send_and_receive
    sr_pc, sr_in, attempt, frames, sr_opens, sr_writes, sr_errors, sr_rxbytes,
    sr_result, sr_raised,
    \* monitor daemon: shared objects
    stop_evt, ser_lock, resp_evt, expected_cmd_id, resp_frames, resp_text_lines,
    \* monitor daemon: the serial handle (OS receive buffer, last frame written)
    m_rx, m_tx, m_ndev,
    \* monitor daemon: reader thread
    m_rpc, m_chunk, m_frame, m_parser, ascii_mode, m_buf, m_fwd,
    \* monitor daemon: socket-server thread
    m_spc, m_req, m_nreq, m_ticks, m_reply,
    \* monitor daemon: the request whose capture window is open (0: none),
    \* the value it had when the reader completed m_frame, and when it
    \* completed each frame of resp_frames; the chunks the reader read
    \* and ran through its for loop while capture was enabled, since it was
    \* last enabled; whether these three are kept at all
    m_owner, m_frame_win, resp_wins, m_read, m_track,
    \* monitor daemon: main thread, whether the serial handle is open and
    \* whether the socket file exists
    m_main, ser_open, sock_file,
    \* send_orbfix_zip: arguments, loop index, bytes sent, what was done on the
    \* serial handle (frames written, input-buffer resets), the last _wait_ack,
    \* and for each frame written whether its _send_wait_ack returned True
    fw_pc, fw_in, fw_idx, fw_sent, fw_writes, fw_resets, fw_ack, fw_acked

codecVars == <<c_pc, c_cmd, c_sys, c_payload, c_buf, c_tamper, c_res>>
fsmVars == <<parser, f_pc, f_scn, f_idx, f_ret, f_rets, f_frames, f_raised>>
srVars == <<sr_pc, sr_in, attempt, frames, sr_opens, sr_writes, sr_errors,
            sr_rxbytes, sr_result, sr_raised>>
sharedVars == <<stop_evt, ser_lock, resp_evt, expected_cmd_id, resp_frames,
                resp_text_lines>>
serialVars == <<m_rx, m_tx, m_ndev>>
readerVars == <<m_rpc, m_chunk, m_frame, m_parser, ascii_mode, m_buf, m_fwd>>
serverVars == <<m_spc, m_req, m_nreq, m_ticks, m_reply>>
mainVars == <<m_main, ser_open, sock_file>>
monVars == <<sharedVars, serialVars, readerVars, serverVars, m_owner,
             m_frame_win, resp_wins, m_read, m_track, mainVars>>
fwVars == <<fw_pc, fw_in, fw_idx, fw_sent, fw_writes, fw_resets, fw_ack,
            fw_acked>>
vars == <<codecVars, fsmVars, srVars, monVars, fwVars>>

-----------------------------------------------------------------------------
(* Protocol constants *)

ENCODER_OFFSET == 9
RISECommand_SYNC_1 == 82
RISECommand_SYNC_2 == 83
ORBFIX_CTL_SUBSYSTEM_ID == 122
ORBFIX_GNSS_SUBSYSTEM_IDS == {106, 107, 108}
EOL == 10
CRC_POLY == 4129
HEADER_LEN == 9
RISE_MSG_SIZE == 2048
HEADER_R == 82
HEADER_S == 83

-----------------------------------------------------------------------------
(* Bounds of the model *)

MaxPayloadLen == 2
MaxNoise == 2
MaxTail == 2
MaxRetries == 2
MaxRequests == 2
MaxTicks == 1
MaxDevSends == 2
MaxFwPackets == 3

-----------------------------------------------------------------------------
(* Byte helpers *)

Pow2(n) == 2 ^ n

RECURSIVE XorBits(_, _, _)
XorBits(a, b, n) ==
    IF n = 0 THEN 0
    ELSE ((a + b) % 2) + 2 * XorBits(a \div 2, b \div 2, n - 1)

Xor16(a, b) == XorBits(a, b, 16)

Xor8(a, b) == XorBits(a, b, 8)

RECURSIVE OrBits(_, _, _)
OrBits(a, b, n) ==
    IF n = 0 THEN 0
    ELSE (IF a % 2 = 1 \/ b % 2 = 1 THEN 1 ELSE 0)
         + 2 * OrBits(a \div 2, b \div 2, n - 1)

\* struct.pack(">H", v)
PackH(v) == <<v \div 256, v % 256>>

\* struct.unpack(">H", b[i:i+2])[0]
UnpackH(b, i) == b[i + 1] * 256 + b[i + 2]

\* b[i:j] for 0 <= i <= j
Slice(b, i, j) == SubSeq(b, i + 1, IF j <= Len(b) THEN j ELSE Len(b))

-----------------------------------------------------------------------------
(* CRC: pycrc Crc(width=16, poly=0x1021, xor_in=0, xor_out=0, no reflection)
   .bit_by_bit(data): the message bits are shifted into the register most
   significant bit first, then 16 zero bits.                               *)

CrcShiftBit(reg, bit) ==
    LET topbit == reg \div 32768
        shifted == ((reg * 2) % 65536) + bit
    IN  IF topbit = 1 THEN Xor16(shifted, CRC_POLY) ELSE shifted

\* the comparisons with 0 only make the evaluation of the register strict
RECURSIVE CrcOctet(_, _, _)
CrcOctet(reg, octet, i) ==
    IF i = 8 THEN reg
    ELSE LET reg2 == CrcShiftBit(reg, (octet \div Pow2(7 - i)) % 2)
         IN  IF reg2 >= 0 THEN CrcOctet(reg2, octet, i + 1) ELSE 0

RECURSIVE CrcData(_, _, _)
CrcData(reg, data, k) ==
    IF k > Len(data) THEN reg
    ELSE LET reg2 == CrcOctet(reg, data[k], 0)
         IN  IF reg2 >= 0 THEN CrcData(reg2, data, k + 1) ELSE 0

bit_by_bit(data) == CrcOctet(CrcOctet(CrcData(0, data, 1), 0, 0), 0, 0)

\* the register started at 0xFFFF, as CRC-16/CCITT-FALSE has it
compute_crc_initFFFF(command_info, arg) ==
    CrcOctet(CrcOctet(CrcData(65535, command_info \o arg, 1), 0, 0), 0, 0)

\* compute_crc(command_info, arg)
compute_crc(command_info, arg) == bit_by_bit(command_info \o arg)

-----------------------------------------------------------------------------
(* Frame codec *)

\* struct.pack(">BHH", system, command_id, length) succeeds
PackOk(system, command_id, length) ==
    /\ system \in 0..255
    /\ command_id \in 0..65535
    /\ length \in 0..65535

PackBHH(system, command_id, length) ==
    <<system>> \o PackH(command_id) \o PackH(length)

riseprotocol_encode_lenLE(command_id, system, payload) ==
    LET crc == compute_crc(PackBHH(system, command_id, Len(payload)), payload)
    IN  <<RISECommand_SYNC_1, RISECommand_SYNC_2>> \o PackH(crc)
        \o <<system>> \o PackH(command_id)
        \o <<Len(payload) % 256, Len(payload) \div 256>>
        \o payload \o <<EOL>>

riseprotocol_encode(command_id, system, payload) ==
    LET crc == compute_crc(PackBHH(system, command_id, Len(payload)), payload)
    IN  <<RISECommand_SYNC_1, RISECommand_SYNC_2>> \o PackH(crc)
        \o PackBHH(system, command_id, Len(payload))
        \o payload \o <<EOL>>

\* RISECommand.__init__: the exception it raises, or "none"
RISECommand_raises(buffer) ==
    IF Len(buffer) < 10 THEN "Frame too short"
    ELSE IF Len(buffer) # ENCODER_OFFSET + UnpackH(buffer, 7) + 1
         THEN "Length mismatch"
         ELSE "none"

\* RISECommand.__init__: the object built when nothing is raised
RISECommand(buffer) ==
    LET payload_length == UnpackH(buffer, 7)
    IN  [sync1 |-> buffer[1],
         sync2 |-> buffer[2],
         crc |-> UnpackH(buffer, 2),
         orbfix_id |-> buffer[5],
         cmd_id |-> UnpackH(buffer, 5),
         payload_length |-> payload_length,
         payload |-> IF payload_length # 0
                     THEN Slice(buffer, 9, 9 + payload_length) ELSE <<>>,
         eol |-> buffer[Len(buffer)]]

validate_header(entry) ==
    /\ entry.sync1 = RISECommand_SYNC_1
    /\ entry.sync2 = RISECommand_SYNC_2
    /\ entry.eol = EOL

validate_id(entry) ==
    \/ entry.orbfix_id = ORBFIX_CTL_SUBSYSTEM_ID
    \/ entry.orbfix_id \in ORBFIX_GNSS_SUBSYSTEM_IDS

validate_crc_skipped(entry) == TRUE

validate_crc(entry) ==
    entry.crc = compute_crc(
        PackBHH(entry.orbfix_id, entry.cmd_id, entry.payload_length),
        entry.payload)

NoEntry == [none |-> TRUE]

riseprotocol_decode_oneCode(command_buffer) ==
    IF RISECommand_raises(command_buffer) # "none"
    THEN [entry |-> NoEntry, err |-> -1]
    ELSE LET entry == RISECommand(command_buffer)
         IN  IF ~validate_header(entry) THEN [entry |-> NoEntry, err |-> -1]
             ELSE IF ~validate_id(entry) THEN [entry |-> NoEntry, err |-> -3]
             ELSE IF ~validate_crc(entry) THEN [entry |-> NoEntry, err |-> -4]
             ELSE [entry |-> entry, err |-> 0]

\* a variant that checks the subsystem id before the header
riseprotocol_decode_idFirst(command_buffer) ==
    IF RISECommand_raises(command_buffer) # "none"
    THEN [entry |-> NoEntry, err |-> -1]
    ELSE LET entry == RISECommand(command_buffer)
         IN  IF ~validate_id(entry) THEN [entry |-> NoEntry, err |-> -3]
             ELSE IF ~validate_header(entry) THEN [entry |-> NoEntry, err |-> -2]
             ELSE IF ~validate_crc(entry) THEN [entry |-> NoEntry, err |-> -4]
             ELSE [entry |-> entry, err |-> 0]

riseprotocol_decode(command_buffer) ==
    IF RISECommand_raises(command_buffer) # "none"
    THEN [entry |-> NoEntry, err |-> -1]
    ELSE LET entry == RISECommand(command_buffer)
         IN  IF ~validate_header(entry) THEN [entry |-> NoEntry, err |-> -2]
             ELSE IF ~validate_id(entry) THEN [entry |-> NoEntry, err |-> -3]
             ELSE IF ~validate_crc(entry) THEN [entry |-> NoEntry, err |-> -4]
             ELSE [entry |-> entry, err |-> 0]

-----------------------------------------------------------------------------
(* Codec harness: encode one input, optionally damage the frame, decode it *)

CmdIds == {1, 5, 65535}
SysIds == {ORBFIX_CTL_SUBSYSTEM_ID} \cup ORBFIX_GNSS_SUBSYSTEM_IDS \cup {0}
PayloadBytes == {0, 255}

RECURSIVE SeqsUpTo(_, _)
SeqsUpTo(S, n) ==
    IF n = 0 THEN {<<>>}
    ELSE LET shorter == SeqsUpTo(S, n - 1)
         IN  shorter \cup {Append(s, x) : s \in {t \in shorter : Len(t) = n - 1}, x \in S}

Payloads == SeqsUpTo(PayloadBytes, MaxPayloadLen)

NoTamper == [kind |-> "none", index |-> 0, bit |-> 0]
NoResult == [entry |-> NoEntry, err |-> 1]

CodecIdle ==
    /\ c_pc = "idle" /\ c_cmd = 0 /\ c_sys = 0 /\ c_payload = <<>>
    /\ c_buf = <<>> /\ c_tamper = NoTamper /\ c_res = NoResult

CodecInit ==
    /\ c_pc = "ready"
    /\ c_cmd \in CmdIds
    /\ c_sys \in SysIds
    /\ c_payload \in Payloads
    /\ c_buf = <<>>
    /\ c_tamper = NoTamper
    /\ c_res = NoResult

CodecEncode ==
    /\ c_pc = "ready"
    /\ c_buf' = riseprotocol_encode(c_cmd, c_sys, c_payload)
    /\ c_pc' = "encoded"
    /\ UNCHANGED <<c_cmd, c_sys, c_payload, c_tamper, c_res>>
    /\ UNCHANGED <<fsmVars, srVars, monVars, fwVars>>

\* one bit of the byte at Python index i inverted
FlipBit(b, i, bit) == [b EXCEPT ![i + 1] = Xor8(b[i + 1], Pow2(bit))]

CodecFlipBit ==
    /\ c_pc = "encoded"
    /\ \E i \in 0..(Len(c_buf) - 1), bit \in 0..7 :
          /\ c_buf' = FlipBit(c_buf, i, bit)
          /\ c_tamper' = [kind |-> "flip", index |-> i, bit |-> bit]
    /\ c_pc' = "tampered"
    /\ UNCHANGED <<c_cmd, c_sys, c_payload, c_res>>
    /\ UNCHANGED <<fsmVars, srVars, monVars, fwVars>>

CodecTruncate ==
    /\ c_pc = "encoded"
    /\ \E n \in 0..(Len(c_buf) - 1) :
          /\ c_buf' = SubSeq(c_buf, 1, n)
          /\ c_tamper' = [kind |-> "truncate", index |-> n, bit |-> 0]
    /\ c_pc' = "tampered"
    /\ UNCHANGED <<c_cmd, c_sys, c_payload, c_res>>
    /\ UNCHANGED <<fsmVars, srVars, monVars, fwVars>>

CodecAppend ==
    /\ c_pc = "encoded"
    /\ \E b \in {0, EOL} :
          /\ c_buf' = Append(c_buf, b)
          /\ c_tamper' = [kind |-> "append", index |-> Len(c_buf), bit |-> 0]
    /\ c_pc' = "tampered"
    /\ UNCHANGED <<c_cmd, c_sys, c_payload, c_res>>
    /\ UNCHANGED <<fsmVars, srVars, monVars, fwVars>>

\* the faults a buffer can be given together: cut to 9 bytes, a length
\* field one too large, a wrong first sync byte, a wrong EOL, an unknown
\* subsystem id, a wrong CRC
FaultKinds == {"short", "len", "sync", "eol", "sys", "crc"}

Damaged(buf, F) ==
    LET b1 == IF "sync" \in F THEN [buf EXCEPT ![1] = 0] ELSE buf
        b2 == IF "crc" \in F THEN [b1 EXCEPT ![4] = Xor8(b1[4], 1)] ELSE b1
        b3 == IF "sys" \in F THEN [b2 EXCEPT ![5] = 0] ELSE b2
        b4 == IF "len" \in F THEN [b3 EXCEPT ![9] = b3[9] + 1] ELSE b3
        b5 == IF "eol" \in F THEN [b4 EXCEPT ![Len(b4)] = 0] ELSE b4
    IN  IF "short" \in F THEN SubSeq(b5, 1, 9) ELSE b5

CodecDamage ==
    /\ c_pc = "encoded"
    /\ \E F \in (SUBSET FaultKinds) \ {{}} :
          /\ c_buf' = Damaged(c_buf, F)
          /\ c_tamper' = [kind |-> "damage", index |-> 0, bit |-> 0, faults |-> F]
    /\ c_pc' = "tampered"
    /\ UNCHANGED <<c_cmd, c_sys, c_payload, c_res>>
    /\ UNCHANGED <<fsmVars, srVars, monVars, fwVars>>

CodecDecode ==
    /\ c_pc \in {"encoded", "tampered"}
    /\ c_res' = riseprotocol_decode(c_buf)
    /\ c_pc' = "decoded"
    /\ UNCHANGED <<c_cmd, c_sys, c_payload, c_buf, c_tamper>>
    /\ UNCHANGED <<fsmVars, srVars, monVars, fwVars>>

CodecNext ==
    \/ CodecEncode
    \/ CodecFlipBit
    \/ CodecTruncate
    \/ CodecAppend
    \/ CodecDamage
    \/ CodecDecode


-----------------------------------------------------------------------------
(* Incremental frame parser *)

\* RiseParser(): the buffer is bytearray(RISE_MSG_SIZE) of zeros; the model
\* keeps its cells up to the highest one written, the cells above are 0.
NewParser ==
    [state |-> "ST_WAIT_SYNC1", buffer |-> <<>>, pos |-> 0, expected_length |-> 0]

\* a variant of reset that leaves expected_length as it was
ParserReset_keepLength(p) ==
    [p EXCEPT !.state = "ST_WAIT_SYNC1", !.pos = 0]

\* a variant of reset that leaves the cursor where it was
ParserReset_keepPos(p) ==
    [p EXCEPT !.state = "ST_WAIT_SYNC1", !.expected_length = 0]

\* RiseParser.reset (the buffer is kept)
ParserReset(p) ==
    [p EXCEPT !.state = "ST_WAIT_SYNC1", !.pos = 0, !.expected_length = 0]

\* buffer[i] of the bytearray
BufAt(buffer, i) == IF i < Len(buffer) THEN buffer[i + 1] ELSE 0

RECURSIVE Zeros(_)
Zeros(n) == IF n <= 0 THEN <<>> ELSE Append(Zeros(n - 1), 0)

\* buffer[pos] = byte raises IndexError outside the bytearray
StoreOk(pos) == pos >= 0 /\ pos < RISE_MSG_SIZE

\* buffer[pos] = byte
Store(buffer, pos, byte) ==
    IF pos < Len(buffer) THEN [buffer EXCEPT ![pos + 1] = byte]
    ELSE buffer \o Zeros(pos - Len(buffer)) \o <<byte>>

\* bytes(parser.buffer[:n])
BufPrefix(buffer, n) ==
    LET m == IF n <= RISE_MSG_SIZE THEN n ELSE RISE_MSG_SIZE
    IN  IF m <= Len(buffer) THEN SubSeq(buffer, 1, m)
        ELSE buffer \o Zeros(m - Len(buffer))

\* the store and cursor increment every state but ST_WAIT_SYNC1 starts with
Stored(p, byte) ==
    [p EXCEPT !.buffer = Store(p.buffer, p.pos, byte), !.pos = p.pos + 1]

\* a size check that lets every length through
SizeCheckFails_none(expected_length) == FALSE

\* if HEADER_LEN + parser.expected_length > RISE_MSG_SIZE
SizeCheckFails(expected_length) == HEADER_LEN + expected_length > RISE_MSG_SIZE

PayloadDone_late(pos, expected_length) == pos = HEADER_LEN + expected_length + 1

\* if parser.pos == HEADER_LEN + parser.expected_length
PayloadDone(pos, expected_length) == pos = HEADER_LEN + expected_length

WaitSync1_anyByte(p, byte) ==
    [p EXCEPT !.buffer = Store(p.buffer, 0, byte), !.pos = 1,
              !.state = "ST_WAIT_SYNC2"]

\* the ST_WAIT_SYNC1 branch: only HEADER_R is stored and starts a frame
WaitSync1(p, byte) ==
    IF byte = HEADER_R
    THEN [p EXCEPT !.buffer = Store(p.buffer, 0, byte), !.pos = 1,
                   !.state = "ST_WAIT_SYNC2"]
    ELSE p

\* a variant that takes the mismatching byte as the first byte of a frame
WaitSync2Mismatch_retry(p, byte) == WaitSync1(ParserReset(p), byte)

\* the else branch of ST_WAIT_SYNC2: the byte is not HEADER_S
WaitSync2Mismatch(p, byte) == ParserReset(p)

\* what one call returns: the parser afterwards, the value returned, and
\* whether the call raised IndexError (the parser is then as it was)
FsmRet(q, r) == [parser |-> q, ret |-> r, raised |-> FALSE]

\* ST_READ_LEN_1 after the store: the size check, then the next state
ReadLen1(q) ==
    IF SizeCheckFails(q.expected_length)
    THEN FsmRet(ParserReset(q), 0)
    ELSE FsmRet([q EXCEPT !.state = IF q.expected_length = 0
                                    THEN "ST_READ_EOL"
                                    ELSE "ST_READ_PAYLOAD"], 0)

\* ST_READ_PAYLOAD after the store
ReadPayload(q) ==
    IF PayloadDone(q.pos, q.expected_length)
    THEN FsmRet([q EXCEPT !.state = "ST_READ_EOL"], 0)
    ELSE FsmRet(q, 0)

\* a variant that takes the mismatching terminator as the first byte of a
\* frame
ReadEol_retry(q, byte) ==
    IF byte # EOL THEN FsmRet(WaitSync1(ParserReset(q), byte), 0)
    ELSE FsmRet(ParserReset(q), q.pos)

\* ST_READ_EOL after the store: frame_len = parser.pos
ReadEol(q, byte) ==
    IF byte # EOL THEN FsmRet(ParserReset(q), 0)
    ELSE FsmRet(ParserReset(q), q.pos)

\* _fsm_decode_byte(parser, byte)
fsm_decode_byte(p, byte) ==
    IF p.state = "ST_WAIT_SYNC1" THEN FsmRet(WaitSync1(p, byte), 0)
    ELSE IF ~StoreOk(p.pos) THEN [parser |-> p, ret |-> 0, raised |-> TRUE]
    ELSE IF p.state = "ST_WAIT_SYNC2" THEN
        IF byte = HEADER_S
        THEN FsmRet([Stored(p, byte) EXCEPT !.state = "ST_READ_CRC_0"], 0)
        ELSE FsmRet(WaitSync2Mismatch(p, byte), 0)
    ELSE IF p.state = "ST_READ_CRC_0" THEN
        FsmRet([Stored(p, byte) EXCEPT !.state = "ST_READ_CRC_1"], 0)
    ELSE IF p.state = "ST_READ_CRC_1" THEN
        FsmRet([Stored(p, byte) EXCEPT !.state = "ST_READ_SUBSYS"], 0)
    ELSE IF p.state = "ST_READ_SUBSYS" THEN
        FsmRet([Stored(p, byte) EXCEPT !.state = "ST_READ_CMD_ID_0"], 0)
    ELSE IF p.state = "ST_READ_CMD_ID_0" THEN
        FsmRet([Stored(p, byte) EXCEPT !.state = "ST_READ_CMD_ID_1"], 0)
    ELSE IF p.state = "ST_READ_CMD_ID_1" THEN
        FsmRet([Stored(p, byte) EXCEPT !.state = "ST_READ_LEN_0"], 0)
    ELSE IF p.state = "ST_READ_LEN_0" THEN
        FsmRet([Stored(p, byte) EXCEPT !.state = "ST_READ_LEN_1",
                                       !.expected_length = byte * 256], 0)
    ELSE IF p.state = "ST_READ_LEN_1" THEN
        ReadLen1([Stored(p, byte) EXCEPT
                     !.expected_length = OrBits(p.expected_length, byte, 16)])
    ELSE IF p.state = "ST_READ_PAYLOAD" THEN ReadPayload(Stored(p, byte))
    ELSE ReadEol(Stored(p, byte), byte)

\* a variant that does not append a frame equal to one already collected
ReadStep_dedupe(acc, r) ==
    IF r.ret > 0 /\ \A i \in 1..Len(acc) :
                       acc[i] # BufPrefix(r.parser.buffer, r.ret)
    THEN Append(acc, BufPrefix(r.parser.buffer, r.ret)) ELSE acc

\* one iteration of the for loop of read_frames, r being what
\* _fsm_decode_byte returned: a completed frame is copied and appended
ReadStep(acc, r) ==
    IF r.ret > 0 THEN Append(acc, BufPrefix(r.parser.buffer, r.ret)) ELSE acc

-----------------------------------------------------------------------------
(* Parser harness: a fresh RiseParser is fed a byte stream, one call to
   _fsm_decode_byte per step; a completed frame is copied out of the parser
   buffer the way read_frames does.                                        *)

FsmCmdIds == {1, 21075}
FsmPayloadBytes == {82, 10, 36}
NoiseBytes == {0, 83, 10}
TailBytes == {82, 83, 10, 0}
OversizeLens == {<<7, 248>>, <<8, 0>>, <<255, 255>>}

FsmFrames ==
    {riseprotocol_encode(c, 106, pl) :
        c \in FsmCmdIds, pl \in SeqsUpTo(FsmPayloadBytes, MaxPayloadLen)}

NoiseFrameScenarios ==
    {[kind |-> "noise_frame", noise |-> n, body |-> fr, tail |-> <<>>] :
        n \in SeqsUpTo(NoiseBytes, MaxNoise), fr \in FsmFrames}

OversizeScenarios ==
    {[kind |-> "oversize", noise |-> <<>>,
      body |-> <<HEADER_R, HEADER_S, 0, 0, 106, 0, 1>> \o l, tail |-> t] :
        l \in OversizeLens, t \in SeqsUpTo(TailBytes, MaxTail) \cup FsmFrames}

\* the two longest frames the size check lets through: 2038 and 2039 payload
\* bytes (the parser does not look at the CRC field)
LongLens == {<<7, 246>>, <<7, 247>>}

\* body is the header; the stream goes on with as many zero payload bytes
\* as the header declares and the EOL byte
LongScenarios ==
    {[kind |-> "long", noise |-> <<>>,
      body |-> <<HEADER_R, HEADER_S, 0, 0, 106, 0, 1>> \o l,
      tail |-> <<>>] : l \in LongLens}

\* a sync1 byte, alone or followed by one byte that is not sync2, and then
\* a valid frame
StrayNoises == {<<HEADER_R>>} \cup {<<HEADER_R, b>> : b \in {0, EOL, HEADER_R}}

StrayScenarios ==
    {[kind |-> "stray", noise |-> n, body |-> fr, tail |-> <<>>] :
        n \in StrayNoises, fr \in FsmFrames}

\* frames fed back to back: payloads holding the EOL byte and the sync bytes
MultiFrames ==
    {riseprotocol_encode(c, 106, pl) :
        c \in FsmCmdIds, pl \in {<<>>, <<EOL>>, <<HEADER_R, HEADER_S>>}}

\* bytes that may stand where the EOL byte belongs
BadEolBytes == {HEADER_R, HEADER_S, 0}

\* a valid frame whose last byte is replaced, then more bytes
BadEolScenarios ==
    {[kind |-> "badeol", noise |-> <<>>,
      body |-> SubSeq(fr, 1, Len(fr) - 1) \o <<b>>, tail |-> t] :
        fr \in FsmFrames, b \in BadEolBytes,
        t \in {<<>>, <<HEADER_S, EOL>>, <<EOL>>} \cup MultiFrames}

\* two or three valid frames with nothing in between
MultiScenarios ==
    {[kind |-> "multi", noise |-> a, body |-> b, tail |-> c] :
        a \in MultiFrames, b \in MultiFrames, c \in {<<>>} \cup MultiFrames}

Scenarios ==
    NoiseFrameScenarios \cup OversizeScenarios \cup LongScenarios
        \cup StrayScenarios \cup BadEolScenarios \cup MultiScenarios

Stream(scn) ==
    IF scn.kind = "long"
    THEN scn.body \o [i \in 1..UnpackH(scn.body, 7) |-> 0] \o <<EOL>>
    ELSE scn.noise \o scn.body \o scn.tail

FsmIdle ==
    /\ parser = NewParser /\ f_pc = "idle"
    /\ f_scn = [kind |-> "none", noise |-> <<>>, body |-> <<>>, tail |-> <<>>]
    /\ f_idx = 0 /\ f_ret = 0 /\ f_rets = <<>> /\ f_frames = <<>>
    /\ f_raised = FALSE

FsmInit ==
    /\ parser = NewParser
    /\ f_pc = "feeding"
    /\ f_scn \in Scenarios
    /\ f_idx = 0
    /\ f_ret = 0
    /\ f_rets = <<>>
    /\ f_frames = <<>>
    /\ f_raised = FALSE

FsmFeed ==
    /\ f_pc = "feeding"
    /\ f_idx < Len(Stream(f_scn))
    /\ \E r \in {fsm_decode_byte(parser, Stream(f_scn)[f_idx + 1])} :
           /\ parser' = r.parser
           /\ f_ret' = r.ret
           /\ f_raised' = r.raised
           /\ f_pc' = IF r.raised THEN "raised" ELSE "feeding"
           /\ f_rets' = IF r.raised THEN f_rets ELSE Append(f_rets, r.ret)
           /\ f_frames' = ReadStep(f_frames, r)
    /\ f_idx' = f_idx + 1
    /\ UNCHANGED f_scn
    /\ UNCHANGED <<codecVars, srVars, monVars, fwVars>>

FsmNext == FsmFeed


-----------------------------------------------------------------------------
(* Frame reader *)

RECURSIVE ReadLoop(_, _, _, _)

ReadLoopNext(r, data, k, acc) ==
    IF r.raised THEN [frames |-> acc, raised |-> TRUE]
    ELSE ReadLoop(r.parser, data, k + 1, ReadStep(acc, r))

\* the for loop of read_frames over the bytes received
ReadLoop(p, data, k, acc) ==
    IF k > Len(data) THEN [frames |-> acc, raised |-> FALSE]
    ELSE ReadLoopNext(fsm_decode_byte(p, data[k]), data, k, acc)

\* read_frames(ser, deadline) when the device delivers `data` before the
\* deadline (or before ser.read raises, which only ends the loop)
read_frames(data) == ReadLoop(NewParser, data, 1, <<>>)

-----------------------------------------------------------------------------
(* Command exchange: send_and_receive *)

SrCmd == 1
SrSys == 106
SrRequest == riseprotocol_encode(SrCmd, SrSys, <<>>)
SrAnswer == riseprotocol_encode(SrCmd, SrSys, <<0>>)

\* what the device may deliver during one read window
RxStreams ==
    {<<>>,
     SrAnswer,
     FlipBit(SrAnswer, 9, 0),
     <<0, 255>>,
     SubSeq(SrAnswer, 1, 6),
     SrAnswer \o riseprotocol_encode(5, 122, <<>>)}

\* exception classes the serial layer raises
IoErrors == {"SerialException", "OSError"}

\* except (serial.SerialException, OSError, ValueError)
Caught_none(e) == FALSE

Caught(e) == e \in {"SerialException", "OSError", "ValueError"}

\* if attempt > retries: return []
Exhausted_offByOne(a, retries) == a > retries + 1

Exhausted_early(a, retries) == a >= retries

Exhausted(a, retries) == a > retries

SrIdle ==
    /\ sr_pc = "idle"
    /\ sr_in = [retries |-> 0, reopen_vid_pid |-> FALSE, pre_flush |-> FALSE]
    /\ attempt = 0 /\ frames = <<>> /\ sr_opens = <<>> /\ sr_writes = 0
    /\ sr_errors = 0 /\ sr_rxbytes = 0 /\ sr_result = <<>> /\ sr_raised = "none"

SrInit ==
    /\ sr_pc = "loop"
    /\ sr_in \in [retries : 0..MaxRetries, reopen_vid_pid : BOOLEAN,
                  pre_flush : BOOLEAN]
    /\ attempt = 0
    /\ frames = <<>>
    /\ sr_opens = <<>>
    /\ sr_writes = 0
    /\ sr_errors = 0
    /\ sr_rxbytes = 0
    /\ sr_result = <<>>
    /\ sr_raised = "none"

\* an exception e raised inside the try block of the current attempt
SrExcept(e) ==
    /\ sr_errors' = sr_errors + 1
    /\ IF Caught(e)
       THEN sr_pc' = "check" /\ sr_raised' = sr_raised
       ELSE sr_pc' = "raised" /\ sr_raised' = e

\* _open(): if attempt > 0 and reopen_vid_pid and open_serial_by_vidpid,
\* a being the value of attempt when _open runs (after attempt += 1)
OpenHow(a, reopen_vid_pid) ==
    IF a > 0 /\ reopen_vid_pid THEN "vidpid" ELSE "path"

\* attempt += 1; with _open() as ser
SrOpen ==
    /\ sr_pc = "loop"
    /\ attempt' = attempt + 1
    /\ \/ /\ sr_opens' = Append(sr_opens, OpenHow(attempt', sr_in.reopen_vid_pid))
          /\ sr_pc' = "opened"
          /\ UNCHANGED <<sr_errors, sr_raised>>
       \/ /\ \E e \in IoErrors : SrExcept(e)
          /\ UNCHANGED sr_opens
    /\ UNCHANGED <<sr_in, frames, sr_writes, sr_rxbytes, sr_result>>
    /\ UNCHANGED <<codecVars, fsmVars, monVars, fwVars>>

\* if pre_flush: reset both buffers, drain residual bytes for 50 ms
SrDrain ==
    /\ sr_pc = "opened"
    /\ \/ /\ sr_pc' = "drained"
          /\ UNCHANGED <<sr_errors, sr_raised>>
       \/ /\ sr_in.pre_flush
          /\ \E e \in IoErrors : SrExcept(e)
    /\ UNCHANGED <<sr_in, attempt, frames, sr_opens, sr_writes, sr_rxbytes,
                   sr_result>>
    /\ UNCHANGED <<codecVars, fsmVars, monVars, fwVars>>

\* encoded = _encode_frame(...); ser.write(encoded); ser.flush()
SrWrite ==
    /\ sr_pc = "drained"
    /\ \/ /\ sr_writes' = sr_writes + 1
          /\ sr_pc' = "written"
          /\ UNCHANGED <<sr_errors, sr_raised>>
       \/ /\ \E e \in IoErrors : SrExcept(e)
          /\ UNCHANGED sr_writes
    /\ UNCHANGED <<sr_in, attempt, frames, sr_opens, sr_rxbytes, sr_result>>
    /\ UNCHANGED <<codecVars, fsmVars, monVars, fwVars>>

\* frames = read_frames(ser, deadline): a read error ends the read loop
\* inside read_frames and is not seen by send_and_receive
SrRead ==
    /\ sr_pc = "written"
    /\ \E data \in RxStreams, ioerr \in BOOLEAN :
          \E r \in {read_frames(data)} :
              /\ sr_rxbytes' = sr_rxbytes + Len(data)
              /\ sr_errors' = sr_errors + (IF ioerr THEN 1 ELSE 0)
              /\ IF r.raised
                 THEN /\ sr_pc' = "raised"
                      /\ sr_raised' = "IndexError"
                      /\ UNCHANGED frames
                 ELSE /\ sr_pc' = "check"
                      /\ frames' = r.frames
                      /\ UNCHANGED sr_raised
    /\ UNCHANGED <<sr_in, attempt, sr_opens, sr_writes, sr_result>>
    /\ UNCHANGED <<codecVars, fsmVars, monVars, fwVars>>

\* if frames: break, and the frames are returned after being printed
SrReturnFrames ==
    /\ sr_pc = "check"
    /\ frames # <<>>
    /\ sr_result' = frames
    /\ sr_pc' = "done"
    /\ UNCHANGED <<sr_in, attempt, frames, sr_opens, sr_writes, sr_errors,
                   sr_rxbytes, sr_raised>>
    /\ UNCHANGED <<codecVars, fsmVars, monVars, fwVars>>

\* if attempt > retries: return []
SrGiveUp ==
    /\ sr_pc = "check"
    /\ frames = <<>>
    /\ Exhausted(attempt, sr_in.retries)
    /\ sr_result' = <<>>
    /\ sr_pc' = "done"
    /\ UNCHANGED <<sr_in, attempt, frames, sr_opens, sr_writes, sr_errors,
                   sr_rxbytes, sr_raised>>
    /\ UNCHANGED <<codecVars, fsmVars, monVars, fwVars>>

\* time.sleep(0.1) and the next iteration of the while loop
SrRetry ==
    /\ sr_pc = "check"
    /\ frames = <<>>
    /\ ~Exhausted(attempt, sr_in.retries)
    /\ attempt <= MaxRetries + 2
    /\ sr_pc' = "loop"
    /\ UNCHANGED <<sr_in, attempt, frames, sr_opens, sr_writes, sr_errors,
                   sr_rxbytes, sr_result, sr_raised>>
    /\ UNCHANGED <<codecVars, fsmVars, monVars, fwVars>>

SrNext ==
    \/ SrOpen
    \/ SrDrain
    \/ SrWrite
    \/ SrRead
    \/ SrReturnFrames
    \/ SrGiveUp
    \/ SrRetry


-----------------------------------------------------------------------------
(* Monitor daemon *)

NoneId == -1
NoRequest == [id |-> 0, kind |-> "none", cmd_id |-> 0, sysid |-> 0]
NoReply == [id |-> 0, ok |-> FALSE, error |-> "none", frames |-> <<>>,
            text_lines |-> <<>>]

MonIdle ==
    /\ stop_evt = FALSE /\ ser_lock = "free" /\ resp_evt = FALSE
    /\ expected_cmd_id = NoneId /\ resp_frames = <<>> /\ resp_text_lines = <<>>
    /\ m_rx = <<>> /\ m_tx = <<>> /\ m_ndev = 0
    /\ m_rpc = "idle" /\ m_chunk = <<>> /\ m_frame = <<>>
    /\ m_parser = NewParser /\ ascii_mode = FALSE /\ m_buf = <<>> /\ m_fwd = <<>>
    /\ m_spc = "idle" /\ m_req = NoRequest /\ m_nreq = 0 /\ m_ticks = 0
    /\ m_reply = NoReply
    /\ m_owner = 0 /\ m_frame_win = 0 /\ resp_wins = <<>> /\ m_read = <<>>
    /\ m_track = FALSE
    /\ m_main = "run" /\ ser_open = TRUE /\ sock_file = TRUE


\* what the device may put on the line in one burst: the answers to commands
\* 1 and 5, an NMEA sentence "$G\n" and a text line "OK\n"
DevStreams ==
    {riseprotocol_encode(1, 106, <<>>),
     riseprotocol_encode(5, 106, <<>>),
     <<36, 71, 10>>,
     <<79, 75, 10>>}

\* an answer to command 1 whose payload is the byte 0x24
TrackedStreams == {riseprotocol_encode(1, 106, <<36>>)}

\* the requests a client may send: well formed, malformed JSON, bad fields
\* (int(), bytes.fromhex() or float() raises), and a command id that int()
\* accepts and struct.pack rejects
Requests ==
    {[kind |-> "ok", cmd_id |-> c, sysid |-> 106] : c \in {1, 70000}}
    \cup {[kind |-> k, cmd_id |-> 1, sysid |-> 106] : k \in {"badjson", "badfields"}}

MonInit(track) ==
    /\ stop_evt = FALSE /\ ser_lock = "free" /\ resp_evt = FALSE
    /\ expected_cmd_id = NoneId /\ resp_frames = <<>> /\ resp_text_lines = <<>>
    /\ m_rx = <<>> /\ m_tx = <<>> /\ m_ndev = 0
    /\ m_rpc = "read" /\ m_chunk = <<>> /\ m_frame = <<>>
    /\ m_parser = NewParser /\ ascii_mode = FALSE /\ m_buf = <<>> /\ m_fwd = <<>>
    /\ m_spc = "accept" /\ m_req = NoRequest /\ m_nreq = 0 /\ m_ticks = 0
    /\ m_reply = NoReply
    /\ m_owner = 0 /\ m_frame_win = 0 /\ resp_wins = <<>> /\ m_read = <<>>
    /\ m_track = track
    /\ m_main = "run" /\ ser_open = TRUE /\ sock_file = TRUE

(* Reader thread *)

\* the bytes the reader keeps as text after a byte went through the parser
\* without completing a frame (r is what _fsm_decode_byte returned)
ReaderNoise(st, b, r) ==
    IF r.ret > 0 \/ r.raised \/ r.parser.state # "ST_WAIT_SYNC1" THEN st.buf
    ELSE IF st.parser.state = "ST_WAIT_SYNC1" /\ b # 82 THEN Append(st.buf, b)
    ELSE IF st.parser.state = "ST_WAIT_SYNC2" THEN st.buf \o <<82, b>>
    ELSE st.buf

ReaderFsmByte(st, b, r) ==
    [parser |-> r.parser, ascii |-> FALSE, buf |-> ReaderNoise(st, b, r),
     flen |-> r.ret, raised |-> r.raised]

\* a variant in which the bytes of a line also go through the parser
reader_byte_leaky(st, b) ==
    IF st.ascii
    THEN [parser |-> fsm_decode_byte(st.parser, b).parser, ascii |-> (b # 10),
          buf |-> Append(st.buf, b), flen |-> 0, raised |-> FALSE]
    ELSE IF b = 36
    THEN [parser |-> st.parser, ascii |-> TRUE, buf |-> Append(st.buf, b),
          flen |-> 0, raised |-> FALSE]
    ELSE ReaderFsmByte(st, b, fsm_decode_byte(st.parser, b))

\* one iteration of "for b in chunk" up to the frame handling: the parser,
\* the line mode and the line buffer afterwards, and the frame length
reader_byte(st, b) ==
    IF st.ascii
    THEN [parser |-> st.parser, ascii |-> (b # 10), buf |-> Append(st.buf, b),
          flen |-> 0, raised |-> FALSE]
    ELSE IF b = 36
    THEN [parser |-> st.parser, ascii |-> TRUE, buf |-> Append(st.buf, b),
          flen |-> 0, raised |-> FALSE]
    ELSE ReaderFsmByte(st, b, fsm_decode_byte(st.parser, b))

RECURSIVE ProcessChunk(_, _)

ProcessChunkNext(r, rest) ==
    IF r.raised \/ r.flen > 0
    THEN [st |-> [parser |-> r.parser, ascii |-> r.ascii, buf |-> r.buf],
          rest |-> rest, flen |-> r.flen, raised |-> r.raised]
    ELSE ProcessChunk([parser |-> r.parser, ascii |-> r.ascii, buf |-> r.buf],
                      rest)

\* the bytes of a chunk processed up to the first completed frame (or to an
\* exception, or to the end of the chunk)
ProcessChunk(st, chunk) ==
    IF chunk = <<>> THEN [st |-> st, rest |-> <<>>, flen |-> 0, raised |-> FALSE]
    ELSE ProcessChunkNext(reader_byte(st, Head(chunk)), Tail(chunk))

\* the reader goes on with the bytes left of its chunk: it stops at the next
\* completed frame; an exception abandons the chunk; at the end of the chunk
\* it turns to the complete lines of buf
ReaderResume(chunk) ==
    \E r \in {ProcessChunk([parser |-> m_parser, ascii |-> ascii_mode,
                            buf |-> m_buf], chunk)} :
        /\ m_parser' = r.st.parser
        /\ ascii_mode' = r.st.ascii
        /\ m_buf' = r.st.buf
        /\ m_chunk' = IF r.raised THEN <<>> ELSE r.rest
        /\ m_frame' = IF r.flen > 0 THEN BufPrefix(r.st.parser.buffer, r.flen)
                      ELSE <<>>
        /\ m_frame_win' = IF m_track /\ r.flen > 0 THEN m_owner ELSE 0
        /\ m_rpc' = IF r.raised THEN "read"
                    ELSE IF r.flen > 0 THEN "evt" ELSE "lines"

ReaderEnv == UNCHANGED <<serverVars, m_tx, m_ndev, m_owner, stop_evt, ser_lock,
                         resp_evt, expected_cmd_id>>

\* chunk = ser.read(512) returned bytes
ReaderRead ==
    /\ m_rpc = "read"
    /\ ~stop_evt
    /\ m_rx # <<>>
    /\ m_rx' = <<>>
    /\ ReaderResume(m_rx)
    /\ UNCHANGED <<resp_frames, resp_text_lines, m_fwd>>
    /\ ReaderEnv
    /\ UNCHANGED resp_wins
    /\ m_read' = IF m_track /\ m_owner # 0 THEN Append(m_read, m_rx)
                 ELSE m_read
    /\ UNCHANGED <<codecVars, fsmVars, srVars, fwVars, m_track, mainVars>>

\* if resp_evt.is_set()
ReaderCheckEvt ==
    /\ m_rpc = "evt"
    /\ IF resp_evt
       THEN /\ m_rpc' = "cmp"
            /\ UNCHANGED <<m_chunk, m_frame, m_parser, ascii_mode, m_buf,
                           m_frame_win>>
       ELSE ReaderResume(m_chunk)
    /\ UNCHANGED <<resp_frames, resp_text_lines, m_fwd, m_rx>>
    /\ ReaderEnv
    /\ UNCHANGED resp_wins
    /\ UNCHANGED m_read
    /\ UNCHANGED <<codecVars, fsmVars, srVars, fwVars, m_track, mainVars>>

\* dec = RISECommand(frame); expected is None or dec.cmd_id == expected
ReaderCompare ==
    /\ m_rpc = "cmp"
    /\ IF \/ RISECommand_raises(m_frame) # "none"
          \/ expected_cmd_id = NoneId
          \/ RISECommand(m_frame).cmd_id = expected_cmd_id
       THEN /\ m_rpc' = "append"
            /\ UNCHANGED <<m_chunk, m_frame, m_parser, ascii_mode, m_buf,
                           m_frame_win>>
       ELSE ReaderResume(m_chunk)
    /\ UNCHANGED <<resp_frames, resp_text_lines, m_fwd, m_rx>>
    /\ ReaderEnv
    /\ UNCHANGED resp_wins
    /\ UNCHANGED m_read
    /\ UNCHANGED <<codecVars, fsmVars, srVars, fwVars, m_track, mainVars>>

\* resp_frames.append(frame)
ReaderAppend ==
    /\ m_rpc = "append"
    /\ resp_frames' = Append(resp_frames, m_frame)
    /\ ReaderResume(m_chunk)
    /\ UNCHANGED <<resp_text_lines, m_fwd, m_rx>>
    /\ ReaderEnv
    /\ resp_wins' = IF m_track THEN Append(resp_wins, m_frame_win) ELSE resp_wins
    /\ UNCHANGED m_read
    /\ UNCHANGED <<codecVars, fsmVars, srVars, fwVars, m_track, mainVars>>

\* buf.find(b"\n"): the index of the first newline, 0 if there is none
RECURSIVE FindNl(_, _)
FindNl(buf, k) ==
    IF k > Len(buf) THEN 0 ELSE IF buf[k] = 10 THEN k ELSE FindNl(buf, k + 1)

\* line.decode("ascii", errors="replace").rstrip("\r\n")
RECURSIVE RStrip(_)
RStrip(line) ==
    IF line # <<>> /\ line[Len(line)] \in {10, 13}
    THEN RStrip(SubSeq(line, 1, Len(line) - 1))
    ELSE line

DecodeAscii(line) == [i \in 1..Len(line) |-> IF line[i] > 127 THEN 65533 ELSE line[i]]

\* a variant that treats a '$' line as any other line
ReaderLine_dollarCaptured ==
    /\ m_rpc = "lines"
    /\ LET nl == FindNl(m_buf, 1)
           txt == RStrip(DecodeAscii(SubSeq(m_buf, 1, nl)))
       IN  IF nl = 0
           THEN /\ m_rpc' = "read"
                /\ UNCHANGED <<m_buf, resp_text_lines, m_fwd>>
           ELSE /\ m_rpc' = "lines"
                /\ m_buf' = SubSeq(m_buf, nl + 1, Len(m_buf))
                /\ IF txt = <<>>
                   THEN UNCHANGED <<resp_text_lines, m_fwd>>
                   ELSE IF resp_evt
                   THEN resp_text_lines' = Append(resp_text_lines, txt)
                        /\ UNCHANGED m_fwd
                   ELSE m_fwd' = <<txt>> /\ UNCHANGED resp_text_lines
    /\ UNCHANGED <<m_chunk, m_frame, m_parser, ascii_mode, resp_frames, m_rx>>
    /\ ReaderEnv
    /\ UNCHANGED <<m_frame_win, resp_wins, m_read>>
    /\ UNCHANGED <<codecVars, fsmVars, srVars, fwVars, m_track, mainVars>>

\* one iteration of the "while True" loop over the complete lines of buf
ReaderLine ==
    /\ m_rpc = "lines"
    /\ LET nl == FindNl(m_buf, 1)
           txt == RStrip(DecodeAscii(SubSeq(m_buf, 1, nl)))
       IN  IF nl = 0
           THEN /\ m_rpc' = "read"
                /\ UNCHANGED <<m_buf, resp_text_lines, m_fwd>>
           ELSE /\ m_rpc' = "lines"
                /\ m_buf' = SubSeq(m_buf, nl + 1, Len(m_buf))
                /\ IF txt = <<>>
                   THEN UNCHANGED <<resp_text_lines, m_fwd>>
                   ELSE IF txt[1] = 36
                   THEN m_fwd' = <<txt>> /\ UNCHANGED resp_text_lines
                   ELSE IF resp_evt
                   THEN resp_text_lines' = Append(resp_text_lines, txt)
                        /\ UNCHANGED m_fwd
                   ELSE m_fwd' = <<txt>> /\ UNCHANGED resp_text_lines
    /\ UNCHANGED <<m_chunk, m_frame, m_parser, ascii_mode, resp_frames, m_rx>>
    /\ ReaderEnv
    /\ UNCHANGED <<m_frame_win, resp_wins, m_read>>
    /\ UNCHANGED <<codecVars, fsmVars, srVars, fwVars, m_track, mainVars>>

\* while not stop_evt.is_set(): the loop ends
ReaderExit ==
    /\ m_rpc = "read"
    /\ stop_evt
    /\ m_rpc' = "exit"
    /\ UNCHANGED <<m_chunk, m_frame, m_parser, ascii_mode, m_buf, m_fwd>>
    /\ UNCHANGED <<sharedVars, serialVars, serverVars, m_owner>>
    /\ UNCHANGED <<m_frame_win, resp_wins, m_read>>
    /\ UNCHANGED <<codecVars, fsmVars, srVars, fwVars, m_track, mainVars>>


(* Socket-server thread *)

ServerEnv == UNCHANGED <<readerVars, m_ndev, stop_evt>>

\* the steps of one round trip, all inside "with ser_lock"
RoundTripPcs ==
    {"flush", "drain", "clear", "setexp", "setevt", "write", "wait", "clrevt",
     "clrexp"}

\* conn.sendall of an {ok: false, error} reply, then "continue"
ErrorReply(id, error) ==
    /\ m_reply' = [id |-> id, ok |-> FALSE, error |-> error, frames |-> <<>>,
                   text_lines |-> <<>>]
    /\ m_spc' = "accept"

\* "except Exception" around the round trip: the with block has released
\* the lock, the reply is an error
RoundTripFails ==
    /\ ser_lock' = "free"
    /\ m_owner' = 0
    /\ ErrorReply(m_req.id, "serial error")

\* srv.accept() returned a connection, the request was read and parsed
ServerAccept ==
    /\ m_spc = "accept"
    /\ ~stop_evt
    /\ m_nreq < MaxRequests
    /\ m_nreq' = m_nreq + 1
    /\ \E r \in Requests :
          /\ m_req' = [id |-> m_nreq + 1, kind |-> r.kind, cmd_id |-> r.cmd_id,
                       sysid |-> r.sysid]
          /\ IF r.kind = "badjson" THEN ErrorReply(m_nreq + 1, "bad json")
             ELSE IF r.kind = "badfields" THEN ErrorReply(m_nreq + 1, "bad fields")
             ELSE m_spc' = "lock" /\ m_reply' = NoReply
    /\ UNCHANGED <<m_ticks, m_owner, ser_lock, resp_evt, expected_cmd_id,
                   resp_frames, resp_text_lines, m_rx, m_tx>>
    /\ ServerEnv
    /\ UNCHANGED <<m_frame_win, resp_wins, m_read>>
    /\ UNCHANGED <<codecVars, fsmVars, srVars, fwVars, m_track, mainVars>>

ServerLock_notTaken ==
    /\ m_spc = "lock"
    /\ m_spc' = "flush"
    /\ UNCHANGED <<m_req, m_nreq, m_ticks, m_reply, m_owner, ser_lock, resp_evt,
                   expected_cmd_id, resp_frames, resp_text_lines, m_rx, m_tx>>
    /\ ServerEnv
    /\ UNCHANGED <<m_frame_win, resp_wins, m_read>>
    /\ UNCHANGED <<codecVars, fsmVars, srVars, fwVars, m_track, mainVars>>

\* with ser_lock
ServerLock ==
    /\ m_spc = "lock"
    /\ ser_lock = "free"
    /\ ser_lock' = "server"
    /\ m_spc' = "flush"
    /\ UNCHANGED <<m_req, m_nreq, m_ticks, m_reply, m_owner, resp_evt,
                   expected_cmd_id, resp_frames, resp_text_lines, m_rx, m_tx>>
    /\ ServerEnv
    /\ UNCHANGED <<m_frame_win, resp_wins, m_read>>
    /\ UNCHANGED <<codecVars, fsmVars, srVars, fwVars, m_track, mainVars>>

\* ser.reset_input_buffer(); ser.reset_output_buffer()
ServerFlush ==
    /\ m_spc = "flush"
    /\ \/ /\ ser_open
          /\ m_rx' = <<>>
          /\ m_spc' = "drain"
          /\ UNCHANGED <<m_reply, m_owner, ser_lock>>
       \/ /\ RoundTripFails
          /\ UNCHANGED m_rx
    /\ UNCHANGED <<m_req, m_nreq, m_ticks, resp_evt, expected_cmd_id,
                   resp_frames, resp_text_lines, m_tx>>
    /\ ServerEnv
    /\ UNCHANGED <<m_frame_win, resp_wins, m_read>>
    /\ UNCHANGED <<codecVars, fsmVars, srVars, fwVars, m_track, mainVars>>

\* _drain(ser, 30): what arrives within 30 ms is read and thrown away
ServerDrain ==
    /\ m_spc = "drain"
    /\ \/ /\ ser_open
          /\ m_rx' = <<>>
          /\ m_spc' = "clear"
          /\ UNCHANGED <<m_reply, m_owner, ser_lock>>
       \/ /\ RoundTripFails
          /\ UNCHANGED m_rx
    /\ UNCHANGED <<m_req, m_nreq, m_ticks, resp_evt, expected_cmd_id,
                   resp_frames, resp_text_lines, m_tx>>
    /\ ServerEnv
    /\ UNCHANGED <<m_frame_win, resp_wins, m_read>>
    /\ UNCHANGED <<codecVars, fsmVars, srVars, fwVars, m_track, mainVars>>

\* resp_frames.clear(); resp_text_lines.clear()
ServerClear ==
    /\ m_spc = "clear"
    /\ resp_frames' = <<>>
    /\ resp_text_lines' = <<>>
    /\ m_spc' = "setexp"
    /\ UNCHANGED <<m_req, m_nreq, m_ticks, m_reply, m_owner, ser_lock, resp_evt,
                   expected_cmd_id, m_rx, m_tx>>
    /\ ServerEnv
    /\ resp_wins' = <<>>
    /\ UNCHANGED m_frame_win
    /\ UNCHANGED m_read
    /\ UNCHANGED <<codecVars, fsmVars, srVars, fwVars, m_track, mainVars>>

\* a variant that goes on to resp_evt.set() without storing the command id
ServerSetExpected_skipped ==
    /\ m_spc = "setexp"
    /\ m_spc' = "setevt"
    /\ UNCHANGED <<m_req, m_nreq, m_ticks, m_reply, m_owner, ser_lock, resp_evt,
                   expected_cmd_id, resp_frames, resp_text_lines, m_rx, m_tx>>
    /\ ServerEnv
    /\ UNCHANGED <<m_frame_win, resp_wins, m_read>>
    /\ UNCHANGED <<codecVars, fsmVars, srVars, fwVars, m_track, mainVars>>

\* expected_cmd_id_box["val"] = cmd_id
ServerSetExpected ==
    /\ m_spc = "setexp"
    /\ expected_cmd_id' = m_req.cmd_id
    /\ m_spc' = "setevt"
    /\ UNCHANGED <<m_req, m_nreq, m_ticks, m_reply, m_owner, ser_lock, resp_evt,
                   resp_frames, resp_text_lines, m_rx, m_tx>>
    /\ ServerEnv
    /\ UNCHANGED <<m_frame_win, resp_wins, m_read>>
    /\ UNCHANGED <<codecVars, fsmVars, srVars, fwVars, m_track, mainVars>>

\* resp_evt.set()
ServerEnableCapture ==
    /\ m_spc = "setevt"
    /\ resp_evt' = TRUE
    /\ m_owner' = m_req.id
    /\ m_spc' = "write"
    /\ UNCHANGED <<m_req, m_nreq, m_ticks, m_reply, ser_lock, expected_cmd_id,
                   resp_frames, resp_text_lines, m_rx, m_tx>>
    /\ ServerEnv
    /\ m_read' = <<>>
    /\ UNCHANGED <<m_frame_win, resp_wins>>
    /\ UNCHANGED <<codecVars, fsmVars, srVars, fwVars, m_track, mainVars>>

\* enc = _encode_frame(cmd_id, sysid, payload); ser.write(enc); ser.flush()
\* struct.pack raises for a field out of range, the serial layer may raise
ServerWrite ==
    /\ m_spc = "write"
    /\ \/ /\ ser_open
          /\ PackOk(m_req.sysid, m_req.cmd_id, 0)
          /\ m_tx' = <<[req |-> m_req.id,
                       data |-> riseprotocol_encode(m_req.cmd_id, m_req.sysid, <<>>)]>>
          /\ m_ticks' = 0
          /\ m_spc' = "wait"
          /\ UNCHANGED <<m_reply, m_owner, ser_lock>>
       \/ /\ RoundTripFails
          /\ UNCHANGED <<m_tx, m_ticks>>
    /\ UNCHANGED <<m_req, m_nreq, resp_evt, expected_cmd_id, resp_frames,
                   resp_text_lines, m_rx>>
    /\ ServerEnv
    /\ UNCHANGED <<m_frame_win, resp_wins, m_read>>
    /\ UNCHANGED <<codecVars, fsmVars, srVars, fwVars, m_track, mainVars>>

\* time.sleep(0.02) inside the wait loop: the deadline is not reached and
\* the stop flag is clear
ServerPoll ==
    /\ m_spc = "wait"
    /\ ~stop_evt
    /\ m_ticks < MaxTicks
    /\ m_ticks' = m_ticks + 1
    /\ UNCHANGED <<m_spc, m_req, m_nreq, m_reply, m_owner, ser_lock, resp_evt,
                   expected_cmd_id, resp_frames, resp_text_lines, m_rx, m_tx>>
    /\ ServerEnv
    /\ UNCHANGED <<m_frame_win, resp_wins, m_read>>
    /\ UNCHANGED <<codecVars, fsmVars, srVars, fwVars, m_track, mainVars>>

\* the wait loop ends (deadline reached or stop flag set); resp_evt.clear()
ServerDisableCapture ==
    /\ m_spc = "wait"
    /\ resp_evt' = FALSE
    /\ m_owner' = 0
    /\ m_spc' = "clrexp"
    /\ UNCHANGED <<m_req, m_nreq, m_ticks, m_reply, ser_lock, expected_cmd_id,
                   resp_frames, resp_text_lines, m_rx, m_tx>>
    /\ ServerEnv
    /\ m_read' = IF m_rpc \in {"evt", "cmp", "append"}
                 THEN SubSeq(m_read, 1, Len(m_read) - 1) ELSE m_read
    /\ UNCHANGED <<m_frame_win, resp_wins>>
    /\ UNCHANGED <<codecVars, fsmVars, srVars, fwVars, m_track, mainVars>>

\* expected_cmd_id_box["val"] = None, and the with block releases the lock
ServerClearExpected ==
    /\ m_spc = "clrexp"
    /\ expected_cmd_id' = NoneId
    /\ ser_lock' = "free"
    /\ m_spc' = "reply"
    /\ UNCHANGED <<m_req, m_nreq, m_ticks, m_reply, m_owner, resp_evt,
                   resp_frames, resp_text_lines, m_rx, m_tx>>
    /\ ServerEnv
    /\ UNCHANGED <<m_frame_win, resp_wins, m_read>>
    /\ UNCHANGED <<codecVars, fsmVars, srVars, fwVars, m_track, mainVars>>

\* the {ok: true, frames_hex, text_lines, human} reply is built and sent
ServerReply ==
    /\ m_spc = "reply"
    /\ m_reply' = [id |-> m_req.id, ok |-> TRUE, error |-> "none",
                   frames |-> resp_frames, text_lines |-> resp_text_lines]
    /\ m_spc' = "accept"
    /\ UNCHANGED <<m_req, m_nreq, m_ticks, m_owner, ser_lock, resp_evt,
                   expected_cmd_id, resp_frames, resp_text_lines, m_rx, m_tx>>
    /\ ServerEnv
    /\ UNCHANGED <<m_frame_win, resp_wins, m_read>>
    /\ UNCHANGED <<codecVars, fsmVars, srVars, fwVars, m_track, mainVars>>

\* while not stop_evt.is_set(): the accept loop ends
ServerExit ==
    /\ m_spc = "accept"
    /\ stop_evt
    /\ m_spc' = "exit"
    /\ UNCHANGED <<m_req, m_nreq, m_ticks, m_reply>>
    /\ UNCHANGED <<sharedVars, serialVars, readerVars, m_owner>>
    /\ UNCHANGED <<m_frame_win, resp_wins, m_read>>
    /\ UNCHANGED <<codecVars, fsmVars, srVars, fwVars, m_track, mainVars>>

(* Device and main thread *)

\* the receiver puts a burst of bytes on the line
DeviceSend ==
    /\ m_ndev < MaxDevSends
    /\ m_ndev' = m_ndev + 1
    /\ \E d \in DevStreams \cup (IF m_track THEN TrackedStreams ELSE {}) :
          m_rx' = m_rx \o d
    /\ UNCHANGED m_tx
    /\ UNCHANGED <<sharedVars, readerVars, serverVars, m_owner>>
    /\ UNCHANGED <<m_frame_win, resp_wins, m_read>>
    /\ UNCHANGED <<codecVars, fsmVars, srVars, fwVars, m_track, mainVars>>

\* KeyboardInterrupt in the main thread: stop_evt.set(), then the joins
MainStop ==
    /\ m_main = "run"
    /\ ~stop_evt
    /\ stop_evt' = TRUE
    /\ m_main' = "join"
    /\ UNCHANGED <<ser_open, sock_file>>
    /\ UNCHANGED <<ser_lock, resp_evt, expected_cmd_id, resp_frames,
                   resp_text_lines>>
    /\ UNCHANGED <<serialVars, readerVars, serverVars, m_owner>>
    /\ UNCHANGED <<m_frame_win, resp_wins, m_read>>
    /\ UNCHANGED <<codecVars, fsmVars, srVars, fwVars, m_track>>

\* a variant in which os.unlink of a missing file is not caught
MainCleanup_strict ==
    /\ m_main = "join"
    /\ ser_open' = FALSE
    /\ sock_file' = FALSE
    /\ m_main' = IF sock_file THEN "stopped" ELSE "failed"
    /\ UNCHANGED <<sharedVars, serialVars, readerVars, serverVars, m_owner>>
    /\ UNCHANGED <<m_frame_win, resp_wins, m_read>>
    /\ UNCHANGED <<codecVars, fsmVars, srVars, fwVars, m_track>>

\* both joins returned (the thread ended or the 1.0 s timeout passed), then
\* ser.close() and os.unlink(sock), each inside try / except Exception: pass
MainCleanup ==
    /\ m_main = "join"
    /\ ser_open' = FALSE
    /\ sock_file' = FALSE
    /\ m_main' = "stopped"
    /\ UNCHANGED <<sharedVars, serialVars, readerVars, serverVars, m_owner>>
    /\ UNCHANGED <<m_frame_win, resp_wins, m_read>>
    /\ UNCHANGED <<codecVars, fsmVars, srVars, fwVars, m_track>>

\* something else removes the socket file
SockRemoved ==
    /\ sock_file
    /\ sock_file' = FALSE
    /\ UNCHANGED <<m_main, ser_open>>
    /\ UNCHANGED <<sharedVars, serialVars, readerVars, serverVars, m_owner>>
    /\ UNCHANGED <<m_frame_win, resp_wins, m_read>>
    /\ UNCHANGED <<codecVars, fsmVars, srVars, fwVars, m_track>>

MonNext ==
    \/ ReaderRead
    \/ ReaderCheckEvt
    \/ ReaderCompare
    \/ ReaderAppend
    \/ ReaderLine
    \/ ReaderExit
    \/ ServerAccept
    \/ ServerLock
    \/ ServerFlush
    \/ ServerDrain
    \/ ServerClear
    \/ ServerSetExpected
    \/ ServerEnableCapture
    \/ ServerWrite
    \/ ServerPoll
    \/ ServerDisableCapture
    \/ ServerClearExpected
    \/ ServerReply
    \/ ServerExit
    \/ DeviceSend
    \/ MainStop

\* the steps of each thread
ReaderNext ==
    \/ ReaderRead
    \/ ReaderCheckEvt
    \/ ReaderCompare
    \/ ReaderAppend
    \/ ReaderLine
    \/ ReaderExit

ServerNext ==
    \/ ServerAccept
    \/ ServerLock
    \/ ServerFlush
    \/ ServerDrain
    \/ ServerClear
    \/ ServerSetExpected
    \/ ServerEnableCapture
    \/ ServerWrite
    \/ ServerPoll
    \/ ServerDisableCapture
    \/ ServerClearExpected
    \/ ServerReply
    \/ ServerExit

\* the daemon when one request and one burst of the device are still to
\* come
MonStopInit ==
    /\ stop_evt = FALSE /\ ser_lock = "free" /\ resp_evt = FALSE
    /\ expected_cmd_id = NoneId /\ resp_frames = <<>> /\ resp_text_lines = <<>>
    /\ m_rx = <<>> /\ m_tx = <<>> /\ m_ndev = MaxDevSends - 1
    /\ m_rpc = "read" /\ m_chunk = <<>> /\ m_frame = <<>>
    /\ m_parser = NewParser /\ ascii_mode = FALSE /\ m_buf = <<>> /\ m_fwd = <<>>
    /\ m_spc = "accept" /\ m_req = NoRequest /\ m_nreq = MaxRequests - 1
    /\ m_ticks = 0 /\ m_reply = NoReply
    /\ m_owner = 0 /\ m_frame_win = 0 /\ resp_wins = <<>> /\ m_read = <<>>
    /\ m_track = FALSE
    /\ m_main = "run" /\ ser_open = TRUE /\ sock_file = TRUE

\* the daemon with the end of the main thread
MonStopNext ==
    \/ ReaderNext
    \/ ServerNext
    \/ DeviceSend
    \/ MainStop
    \/ MainCleanup
    \/ SockRemoved

-----------------------------------------------------------------------------
(* Firmware transfer: send_orbfix_zip *)

FILE_TRANSFER_CMD == 5
MAX_FRAME == 1024
HEADER_AND_TAIL == 9 + 1
PER_PACKET_META == 1 + 2
FALLBACK_CHUNK == 512
MAX_PACKET_COUNT == 65535

\* max_chunk = MAX_FRAME - HEADER_AND_TAIL - PER_PACKET_META, 512 if not positive
max_chunk ==
    IF MAX_FRAME - HEADER_AND_TAIL - PER_PACKET_META <= 0
    THEN FALLBACK_CHUNK
    ELSE MAX_FRAME - HEADER_AND_TAIL - PER_PACKET_META

total_packets_floor(total_size) == total_size \div max_chunk

\* total_packets = (total_size + max_chunk - 1) // max_chunk
total_packets(total_size) == (total_size + max_chunk - 1) \div max_chunk

TooManyPackets_never(n) == FALSE

\* if total_packets > 0xFFFF
TooManyPackets(n) == n > MAX_PACKET_COUNT

\* the texts of the verdicts, as code points
MsgEmptyAck == <<101, 109, 112, 116, 121, 32, 65, 67, 75>>
MsgTooShort == <<97, 99, 107, 32, 116, 111, 111, 32, 115, 104, 111, 114, 116>>
MsgTimeout == <<97, 99, 107, 32, 116, 105, 109, 101, 111, 117, 116>>
MsgDecodeError(e) ==
    IF e = "Frame too short" THEN
        <<97, 99, 107, 32, 100, 101, 99, 111, 100, 101, 32, 101, 114, 114,
        111, 114, 58, 32, 70, 114, 97, 109, 101, 32, 116, 111, 111, 32, 115,
        104, 111, 114, 116>>
    ELSE
        <<97, 99, 107, 32, 100, 101, 99, 111, 100, 101, 32, 101, 114, 114,
        111, 114, 58, 32, 76, 101, 110, 103, 116, 104, 32, 109, 105, 115, 109,
        97, 116, 99, 104>>

parse_ack_frame_statusIgnored(frame_bytes) ==
    IF RISECommand_raises(frame_bytes) # "none"
    THEN [ok |-> FALSE, code |-> -3,
          msg |-> MsgDecodeError(RISECommand_raises(frame_bytes))]
    ELSE [ok |-> TRUE, code |-> 0, msg |-> MsgEmptyAck]

\* _parse_ack_frame, p being rc.payload
AckVerdict(p) ==
    IF Len(p) = 0 THEN [ok |-> TRUE, code |-> 0, msg |-> MsgEmptyAck]
    ELSE IF Len(p) >= 3
    THEN [ok |-> (p[1] = 0),
          code |-> p[2] * 256 + p[3],
          msg |-> IF Len(p) > 3 THEN DecodeAscii(SubSeq(p, 4, Len(p)))
                  ELSE <<>>]
    ELSE [ok |-> FALSE, code |-> -2, msg |-> MsgTooShort]

\* _parse_ack_frame(frame_bytes): (ok, code, msg)
parse_ack_frame(frame_bytes) ==
    IF RISECommand_raises(frame_bytes) # "none"
    THEN [ok |-> FALSE, code |-> -3,
          msg |-> MsgDecodeError(RISECommand_raises(frame_bytes))]
    ELSE AckVerdict(RISECommand(frame_bytes).payload)

\* the verdict is returned to the caller of _wait_ack
VerdictReturned(v) == v.ok \/ v.code \in {-2, -3}

RECURSIVE WaitAckLoop(_, _, _, _)

WaitAckNext(v, fs, k, parsed, nbytes) ==
    IF VerdictReturned(v)
    THEN [ok |-> v.ok, code |-> v.code, msg |-> v.msg, frame |-> fs[k],
          bytes_seen |-> nbytes, parsed |-> Append(parsed, [frame |-> fs[k], v |-> v])]
    ELSE WaitAckLoop(fs, k + 1, Append(parsed, [frame |-> fs[k], v |-> v]), nbytes)

\* the frames completed before the deadline, in order: the first verdict
\* returned, or the timeout
WaitAckLoop(fs, k, parsed, nbytes) ==
    IF k > Len(fs)
    THEN [ok |-> FALSE, code |-> -1, msg |-> MsgTimeout, frame |-> <<>>,
          bytes_seen |-> nbytes, parsed |-> parsed]
    ELSE WaitAckNext(parse_ack_frame(fs[k]), fs, k, parsed, nbytes)

\* _wait_ack(timeout_s), data being the bytes read before the deadline
wait_ack(data) == WaitAckLoop(read_frames(data).frames, 1, <<>>, Len(data))

(* send_orbfix_zip: the transfer *)

NoAck == [ok |-> FALSE, code |-> 0, msg |-> <<>>, frame |-> <<>>,
          bytes_seen |-> 0, parsed |-> <<>>]

\* blobs of one byte, of one full chunk, of one chunk and a byte, and of
\* MaxFwPackets chunks the last of which is short (3000 bytes for 3)
FwBlobSizes ==
    {1, max_chunk, max_chunk + 1, MaxFwPackets * max_chunk - 33}

\* the blob sizes: empty, the ones above, and the smallest that needs more
\* packets than a 16-bit index counts
FwSizes ==
    {0} \cup FwBlobSizes \cup {MAX_PACKET_COUNT * max_chunk + 1}

\* sys_id_val: in range, and one struct.pack rejects
FwSysIds == {0, 300}

\* what the device answers within the ack timeout
AckStreams ==
    {<<>>,
     riseprotocol_encode(FILE_TRANSFER_CMD, 106, <<>>),
     riseprotocol_encode(FILE_TRANSFER_CMD, 106, <<0, 0, 0>>),
     riseprotocol_encode(FILE_TRANSFER_CMD, 106, <<0, 0, 1, 79, 75>>),
     riseprotocol_encode(FILE_TRANSFER_CMD, 106, <<1, 1, 2, 69, 200>>),
     riseprotocol_encode(FILE_TRANSFER_CMD, 106, <<2, 0, 7>>),
     riseprotocol_encode(FILE_TRANSFER_CMD, 106, <<0>>),
     riseprotocol_encode(FILE_TRANSFER_CMD, 106, <<0, 0>>),
     riseprotocol_encode(FILE_TRANSFER_CMD, 106, <<1, 0, 7>>)
         \o riseprotocol_encode(FILE_TRANSFER_CMD, 106, <<>>),
     riseprotocol_encode(1, 106, <<>>),
     <<0, 255>>}

FwIdle ==
    /\ fw_pc = "idle"
    /\ fw_in = [size |-> 0, sys_id_val |-> 0, retry_once |-> FALSE]
    /\ fw_idx = 0 /\ fw_sent = 0 /\ fw_writes = <<>> /\ fw_resets = 0
    /\ fw_ack = NoAck /\ fw_acked = <<>>

FwInit ==
    /\ fw_pc = "check"
    /\ fw_in \in [size : FwSizes, sys_id_val : FwSysIds, retry_once : BOOLEAN]
    /\ fw_idx = 0
    /\ fw_sent = 0
    /\ fw_writes = <<>>
    /\ fw_resets = 0
    /\ fw_ack = NoAck
    /\ fw_acked = <<>>

\* the payloads: status and 16-bit field as bytes, the rest by its extent
\* (the metadata carries total_size, a chunk is data[start:end])
MetaPayload(total_size) ==
    [head |-> <<0>> \o PackH(total_packets(total_size)), kind |-> "meta",
     start |-> 0, end |-> total_size]

ChunkEnd(idx, total_size) ==
    IF idx * max_chunk + max_chunk < total_size
    THEN idx * max_chunk + max_chunk ELSE total_size

DataPayload(idx, total_size) ==
    [head |-> <<1>> \o PackH(idx), kind |-> "chunk",
     start |-> idx * max_chunk, end |-> ChunkEnd(idx, total_size)]

\* len(payload)
PayloadLen(pl) ==
    IF pl.kind = "meta" THEN 1 + 2 + 8 + 8 ELSE Len(pl.head) + pl.end - pl.start

\* the size, the existence of the file and the packet count are checked
FwCheck ==
    /\ fw_pc = "check"
    /\ fw_pc' = IF fw_in.size = 0 THEN "aborted"
                ELSE IF TooManyPackets(total_packets(fw_in.size))
                     THEN "aborted" ELSE "meta"
    /\ UNCHANGED <<fw_in, fw_idx, fw_sent, fw_writes, fw_resets, fw_ack,
                   fw_acked>>
    /\ UNCHANGED <<codecVars, fsmVars, srVars, monVars>>

\* _send_wait_ack(info, payload): the program goes to okPc when it returns
\* True and to failPc when it returns False; an exception of ser.read in
\* _wait_ack leaves send_orbfix_zip
SendWaitAck(pl, okPc, failPc) ==
    IF ~PackOk(fw_in.sys_id_val, FILE_TRANSFER_CMD, PayloadLen(pl))
    THEN /\ fw_pc' = failPc
         /\ UNCHANGED <<fw_writes, fw_resets, fw_ack, fw_acked>>
    ELSE /\ fw_resets' = fw_resets + 1
         /\ \/ /\ fw_pc' = failPc
               /\ UNCHANGED <<fw_writes, fw_ack, fw_acked>>
            \/ /\ fw_writes' = Append(fw_writes, pl)
               /\ \/ \E data \in AckStreams :
                        \E a \in {wait_ack(data)} :
                            /\ fw_ack' = a
                            /\ fw_acked' = Append(fw_acked, a.ok)
                            /\ fw_pc' = IF a.ok THEN okPc ELSE failPc
                  \/ /\ fw_pc' = "raised"
                     /\ fw_acked' = Append(fw_acked, FALSE)
                     /\ UNCHANGED fw_ack

FwMetaFailPc_resend == "meta"

\* if not _send_wait_ack(meta): return
FwMetaFailPc == "aborted"

\* 1) the metadata frame, without retry
FwMeta ==
    /\ fw_pc = "meta"
    /\ SendWaitAck(MetaPayload(fw_in.size), "chunk", FwMetaFailPc)
    /\ UNCHANGED <<fw_in, fw_idx, fw_sent>>
    /\ UNCHANGED <<codecVars, fsmVars, srVars, monVars>>

\* sent += len(chunk) and the next idx, after a chunk was acknowledged
FwAdvance ==
    IF fw_pc' = "chunk"
    THEN /\ fw_sent' = fw_sent + ChunkEnd(fw_idx, fw_in.size) - fw_idx * max_chunk
         /\ fw_idx' = fw_idx + 1
    ELSE UNCHANGED <<fw_idx, fw_sent>>

FwRetryPc_never == "aborted"

\* a variant that goes on with the next chunk
FwRetryPc_skip == "chunk"

\* if retry_once: the failed chunk is sent again
FwRetryPc == IF fw_in.retry_once THEN "retry" ELSE "aborted"

\* 2) a data frame, first send
FwChunk ==
    /\ fw_pc = "chunk"
    /\ fw_idx < total_packets(fw_in.size)
    /\ SendWaitAck(DataPayload(fw_idx, fw_in.size), "chunk", FwRetryPc)
    /\ FwAdvance
    /\ UNCHANGED fw_in
    /\ UNCHANGED <<codecVars, fsmVars, srVars, monVars>>

FwAbortPc_resend == "retry"

\* the retry failed as well: return
FwAbortPc == "aborted"

\* the retry of a data frame
FwRetry ==
    /\ fw_pc = "retry"
    /\ SendWaitAck(DataPayload(fw_idx, fw_in.size), "chunk", FwAbortPc)
    /\ FwAdvance
    /\ UNCHANGED fw_in
    /\ UNCHANGED <<codecVars, fsmVars, srVars, monVars>>

\* the for loop is over: the transfer is complete
FwComplete ==
    /\ fw_pc = "chunk"
    /\ fw_idx = total_packets(fw_in.size)
    /\ fw_pc' = "complete"
    /\ UNCHANGED <<fw_in, fw_idx, fw_sent, fw_writes, fw_resets, fw_ack,
                   fw_acked>>
    /\ UNCHANGED <<codecVars, fsmVars, srVars, monVars>>

FwNext == FwCheck \/ FwMeta \/ FwChunk \/ FwRetry \/ FwComplete

-----------------------------------------------------------------------------
(* Reader harness: the for loop of the reader over one chunk, one byte per
   step, with no server and no capture                                     *)

\* the chunks: text with and without '$', a sync byte, frames with and
\* without a 0x24 byte, in every order of three parts
DemuxParts ==
    {<<>>, <<36, 82, 83, 10>>, <<79, 75, 10>>, <<82>>, <<36, 71>>,
     riseprotocol_encode(1, 106, <<>>), riseprotocol_encode(1, 106, <<36>>)}

DemuxChunks ==
    {a \o b \o c : a \in DemuxParts, b \in DemuxParts, c \in DemuxParts}

DemuxInit ==
    /\ stop_evt = FALSE /\ ser_lock = "free" /\ resp_evt = FALSE
    /\ expected_cmd_id = NoneId /\ resp_frames = <<>> /\ resp_text_lines = <<>>
    /\ m_rx = <<>> /\ m_tx = <<>> /\ m_ndev = 0
    /\ m_rpc = "bytes" /\ m_chunk \in DemuxChunks /\ m_frame = <<>>
    /\ m_parser = NewParser /\ ascii_mode = FALSE /\ m_buf = <<>> /\ m_fwd = <<>>
    /\ m_spc = "idle" /\ m_req = NoRequest /\ m_nreq = 0 /\ m_ticks = 0
    /\ m_reply = NoReply
    /\ m_owner = 0 /\ m_frame_win = 0 /\ resp_wins = <<>>
    /\ m_read = <<m_chunk>>
    /\ m_track = TRUE
    /\ m_main = "run" /\ ser_open = TRUE /\ sock_file = TRUE

\* one iteration of "for b in chunk"
DemuxFeed ==
    /\ m_rpc = "bytes"
    /\ m_chunk # <<>>
    /\ \E r \in {reader_byte([parser |-> m_parser, ascii |-> ascii_mode,
                              buf |-> m_buf], Head(m_chunk))} :
           /\ m_parser' = r.parser
           /\ ascii_mode' = r.ascii
           /\ m_buf' = r.buf
           /\ m_frame' = IF r.flen > 0 THEN BufPrefix(r.parser.buffer, r.flen)
                         ELSE <<>>
    /\ m_chunk' = Tail(m_chunk)
    /\ UNCHANGED <<m_rpc, m_fwd, m_rx>>
    /\ UNCHANGED <<sharedVars, serverVars, m_tx, m_ndev, m_owner>>
    /\ UNCHANGED <<m_frame_win, resp_wins, m_read>>
    /\ UNCHANGED <<codecVars, fsmVars, srVars, fwVars, m_track, mainVars>>

DemuxNext == DemuxFeed

-----------------------------------------------------------------------------
(* Specifications *)

InitCodec == CodecInit /\ FsmIdle /\ SrIdle /\ MonIdle /\ FwIdle

InitFsm == FsmInit /\ CodecIdle /\ SrIdle /\ MonIdle /\ FwIdle

InitSR == SrInit /\ CodecIdle /\ FsmIdle /\ MonIdle /\ FwIdle

InitMon == MonInit(FALSE) /\ CodecIdle /\ FsmIdle /\ SrIdle /\ FwIdle

\* the daemon with the capture history kept and a device that also sends
\* TrackedStreams
InitMonTracked == MonInit(TRUE) /\ CodecIdle /\ FsmIdle /\ SrIdle /\ FwIdle

SpecCodec == InitCodec /\ [][CodecNext]_vars

SpecFsm == InitFsm /\ [][FsmNext]_vars

SpecSR == InitSR /\ [][SrNext]_vars

SpecMon == InitMon /\ [][MonNext]_vars

SpecMonTracked == InitMonTracked /\ [][MonNext]_vars

\* the steps of the reader that need no byte from the device
ReaderRuns ==
    \/ ReaderCheckEvt
    \/ ReaderCompare
    \/ ReaderAppend
    \/ ReaderLine
    \/ ReaderExit

\* the steps of the server but ServerWrite, which can always be taken at
\* "write" and is the only step that leaves it
ServerRuns ==
    \/ ServerAccept
    \/ ServerLock
    \/ ServerFlush
    \/ ServerDrain
    \/ ServerClear
    \/ ServerSetExpected
    \/ ServerEnableCapture
    \/ ServerPoll
    \/ ServerDisableCapture
    \/ ServerClearExpected
    \/ ServerReply
    \/ ServerExit

\* every thread that can take a step eventually takes one (for ServerWrite:
\* the server does not stay at "write"); the keyboard interrupt, the device
\* and the socket file's removal are not forced
InitMonStop ==
    /\ MonStopInit
    /\ CodecIdle /\ FsmIdle /\ SrIdle /\ FwIdle

SpecMonStop ==
    /\ InitMonStop
    /\ [][MonStopNext]_vars
    /\ WF_vars(ReaderRuns)
    /\ WF_vars(ServerRuns)
    /\ []<>(m_spc # "write")
    /\ WF_vars(MainCleanup)

InitDemux == DemuxInit /\ CodecIdle /\ FsmIdle /\ SrIdle /\ FwIdle

SpecDemux == InitDemux /\ [][DemuxNext]_vars

InitFw == FwInit /\ CodecIdle /\ FsmIdle /\ SrIdle /\ MonIdle

SpecFw == InitFw /\ [][FwNext]_vars


-----------------------------------------------------------------------------
(* Properties of the frame codec *)

AcceptedIds == {ORBFIX_CTL_SUBSYSTEM_ID} \cup ORBFIX_GNSS_SUBSYSTEM_IDS

\* The failure kinds of the error taxonomy, stated on the bytes of a buffer
TooShort(b) == Len(b) < 10
LengthMismatch(b) == Len(b) >= 10 /\ Len(b) # 9 + UnpackH(b, 7) + 1
HeaderInvalid(b) == b[1] # 82 \/ b[2] # 83 \/ b[Len(b)] # 10
UnknownSubsystem(b) == b[5] \notin AcceptedIds
CrcMismatch(b) ==
    UnpackH(b, 2) # bit_by_bit(SubSeq(b, 5, Len(b) - 1))

\* the first validation, in the order of the taxonomy, that a buffer fails
FailureKind(b) ==
    IF TooShort(b) THEN "FrameTooShort"
    ELSE IF LengthMismatch(b) THEN "LengthMismatch"
    ELSE IF HeaderInvalid(b) THEN "HeaderInvalid"
    ELSE IF UnknownSubsystem(b) THEN "UnknownSubsystem"
    ELSE IF CrcMismatch(b) THEN "CrcMismatch"
    ELSE "none"

\* C1: round trip. Decoding the frame encoded from a command id, an accepted
\* subsystem id and a payload returns error code 0 and a frame whose cmd_id,
\* orbfix_id, payload_length and payload are the inputs.
C1_RoundTrip ==
    (c_pc = "decoded" /\ c_tamper.kind = "none" /\ c_sys \in AcceptedIds) =>
        /\ c_res.err = 0
        /\ c_res.entry.cmd_id = c_cmd
        /\ c_res.entry.orbfix_id = c_sys
        /\ c_res.entry.payload_length = Len(c_payload)
        /\ c_res.entry.payload = c_payload

C1_Witness ==
    /\ c_pc = "decoded" /\ c_tamper.kind = "none"
    /\ c_sys = 108 /\ c_cmd = 65535 /\ Len(c_payload) = MaxPayloadLen
    /\ c_res.err = 0

\* a single bit flipped outside the sync bytes and the EOL byte of a valid frame
FlippedInside ==
    /\ c_pc = "decoded"
    /\ c_sys \in AcceptedIds
    /\ c_tamper.kind = "flip"
    /\ c_tamper.index >= 2
    /\ c_tamper.index <= 9 + Len(c_payload) - 1

\* C5 as stated: every such bit flip makes the decode fail with the
\* CRC-mismatch code -4.
C5_AlwaysCrcMismatch == FlippedInside => c_res.err = -4

\* C5 amended: every such bit flip makes the decode fail; the code is -1 when
\* the bit is in the payload length field, -3 when it is in the subsystem id
\* and the damaged id is not accepted, and -4 in every other case.
C5_FlipDetected ==
    FlippedInside =>
        c_res.err = (IF c_tamper.index \in {7, 8} THEN -1
                     ELSE IF c_tamper.index = 4 /\ c_buf[5] \notin AcceptedIds
                          THEN -3
                          ELSE -4)

C5_Witness ==
    /\ FlippedInside /\ c_tamper.index = 9 /\ c_tamper.bit = 7 /\ c_res.err = -4

\* damaged frames of the harness input, one of each failure kind
ReferenceBuffers ==
    LET enc == riseprotocol_encode(c_cmd, 106, c_payload)
    IN  {SubSeq(enc, 1, 9), Append(enc, 0), FlipBit(enc, 0, 0),
         riseprotocol_encode(c_cmd, 0, c_payload), FlipBit(enc, 2, 0)}

\* C6 as stated: every failure kind has an error code that no other failure
\* kind produces: a buffer of another kind never decodes to the code returned
\* for the buffer just decoded.
C6_CodesDistinct ==
    c_pc = "decoded" =>
        \A other \in ReferenceBuffers :
            FailureKind(other) # FailureKind(c_buf) =>
                riseprotocol_decode(other).err # c_res.err

\* C6 amended: FrameTooShort and LengthMismatch share the code -1; the codes
\* of HeaderInvalid (-2), UnknownSubsystem (-3) and CrcMismatch (-4) are each
\* produced by that kind alone, and 0 by a valid frame alone.
C6_CodeOfKind ==
    c_pc = "decoded" =>
        LET kind == FailureKind(c_buf)
        IN  /\ c_res.err = -1 <=> kind \in {"FrameTooShort", "LengthMismatch"}
            /\ c_res.err = -2 <=> kind = "HeaderInvalid"
            /\ c_res.err = -3 <=> kind = "UnknownSubsystem"
            /\ c_res.err = -4 <=> kind = "CrcMismatch"
            /\ c_res.err = 0 <=> kind = "none"

C6_Witness ==
    /\ c_pc = "decoded" /\ c_res.err = -1
    /\ FailureKind(c_buf) = "LengthMismatch" /\ c_tamper.kind = "truncate"

-----------------------------------------------------------------------------
(* Properties of the incremental parser *)

\* a fresh parser run over data: its final state and the frames it completed
RECURSIVE FreshRun(_, _, _, _)

FreshRunNext(r, data, k, acc) ==
    FreshRun(r.parser, data, k + 1, ReadStep(acc, r))

FreshRun(p, data, k, acc) ==
    IF k > Len(data) THEN [parser |-> p, frames |-> acc]
    ELSE FreshRunNext(fsm_decode_byte(p, data[k]), data, k, acc)

Cursor(p) == <<p.state, p.pos, p.expected_length>>

\* C2: a freshly reset parser fed the bytes of a valid frame returns 0 for
\* every byte but the last and 9 + payload length + 1 on the last, when the
\* first bytes of its buffer are the frame.
C2_IncrementalEquivalence ==
    (f_scn.kind = "noise_frame" /\ f_scn.noise = <<>>) =>
        LET frame == f_scn.body
        IN  /\ ~f_raised
            /\ f_idx < Len(frame) => f_ret = 0
            /\ f_idx = Len(frame) =>
                  /\ f_ret = 9 + UnpackH(frame, 7) + 1
                  /\ f_ret = Len(frame)
                  /\ BufPrefix(parser.buffer, f_ret) = frame
                  /\ \A i \in 1..(Len(frame) - 1) : f_rets[i] = 0

C2_Witness ==
    /\ f_scn.kind = "noise_frame" /\ f_scn.noise = <<>>
    /\ f_idx = Len(f_scn.body)
    /\ f_ret = 9 + MaxPayloadLen + 1

\* C3: noise bytes other than sync1 leave the parser in ST_WAIT_SYNC1 without
\* error, and the valid frame that follows is emitted, once, on its last byte.
C3_Resynchronization ==
    f_scn.kind = "noise_frame" =>
        /\ ~f_raised
        /\ f_idx <= Len(f_scn.noise) =>
              /\ parser.state = "ST_WAIT_SYNC1"
              /\ f_ret = 0
        /\ f_idx < Len(Stream(f_scn)) => f_frames = <<>>
        /\ f_idx = Len(Stream(f_scn)) =>
              /\ f_frames = <<f_scn.body>>
              /\ f_ret = Len(f_scn.body)

C3_Witness ==
    /\ f_scn.kind = "noise_frame" /\ Len(f_scn.noise) = MaxNoise
    /\ f_idx = Len(Stream(f_scn))
    /\ f_frames = <<f_scn.body>>

\* C4: the length byte that makes 9 + length exceed RISE_MSG_SIZE returns 0
\* without raising, no frame is emitted for that header and the parser is
\* reset; every later byte is handled as by a fresh parser.
C4_OversizeRejected ==
    (f_scn.kind = "oversize" /\ f_idx >= Len(f_scn.body)) =>
        LET fed == SubSeq(f_scn.tail, 1, f_idx - Len(f_scn.body))
            fresh == FreshRun(NewParser, fed, 1, <<>>)
        IN  /\ ~f_raised
            /\ \A i \in 1..Len(f_scn.body) : f_rets[i] = 0
            /\ f_idx = Len(f_scn.body) =>
                  /\ f_ret = 0
                  /\ Cursor(parser) = <<"ST_WAIT_SYNC1", 0, 0>>
            /\ Cursor(parser) = Cursor(fresh.parser)
            /\ f_frames = fresh.frames

C4_Witness ==
    /\ f_scn.kind = "oversize"
    /\ f_scn.body[8] = 7 /\ f_scn.body[9] = 248
    /\ f_idx = Len(Stream(f_scn))
    /\ f_frames = <<f_scn.tail>>

-----------------------------------------------------------------------------
(* Properties of the command exchange *)

\* C7: with a transport that raises no error and returns no byte,
\* send_and_receive makes exactly retries + 1 attempts, each opening the port
\* and writing the frame once, and returns an empty list without raising.
C7_RetryExhaustion ==
    (sr_errors = 0 /\ sr_rxbytes = 0) =>
        /\ sr_pc # "raised"
        /\ attempt <= sr_in.retries + 1
        /\ sr_pc # "done" => ENABLED SrNext
        /\ sr_pc = "done" =>
              /\ attempt = sr_in.retries + 1
              /\ Len(sr_opens) = sr_in.retries + 1
              /\ sr_writes = sr_in.retries + 1
              /\ sr_result = <<>>

C7_Witness ==
    /\ sr_pc = "done" /\ sr_errors = 0 /\ sr_rxbytes = 0
    /\ sr_in.retries = MaxRetries /\ sr_writes = MaxRetries + 1

\* C8: an attempt ended by a serial I/O error counts like an attempt that
\* read no frame: a further attempt starts only while attempts remain, there
\* are never more than retries + 1 attempts, and when all fail the result is
\* the empty list.
C8_ErrorCountsAsFailedAttempt ==
    /\ sr_pc # "raised"
    /\ attempt <= sr_in.retries + 1
    /\ sr_pc = "loop" => attempt <= sr_in.retries
    /\ (sr_pc = "done" /\ frames = <<>>) =>
          /\ sr_result = <<>>
          /\ attempt = sr_in.retries + 1

C8_Witness ==
    /\ sr_pc = "done" /\ sr_result = <<>>
    /\ sr_errors >= 1 /\ sr_errors < attempt
    /\ Len(sr_opens) < attempt /\ sr_writes >= 1

\* every attempt made so far ended with a serial I/O error and no frame
AllAttemptsIoError == sr_errors = attempt /\ frames = <<>>

RoundTripTouches ==
    \/ m_spc \in {"clear", "setexp", "clrexp"} /\ m_spc' # m_spc
    \/ m_tx' # m_tx

\* C10: at most one command round trip is in progress at any time: the
\* request inside the round trip holds the serial mutex, the capture window
\* belongs to the one request being served from the moment it enables
\* capture until it disables capture or leaves the round trip, and while
\* the window is open every clearing of the capture buffers, every change of
\* the expected command id and every write to the serial handle is made by
\* the request that owns the window, so a frame written is the frame of that
\* request.
C10_MutualExclusion ==
    /\ [](m_spc \in RoundTripPcs => ser_lock = "server")
    /\ [](m_owner # 0 => /\ m_owner = m_req.id
                         /\ m_spc \in {"write", "wait"}
                         /\ ser_lock = "server")
    /\ [][(m_owner # 0 /\ RoundTripTouches) => m_req' = m_req /\ m_owner = m_req.id]_vars
    /\ [][m_tx' # m_tx => /\ ser_lock = "server"
                          /\ m_spc = "write"
                          /\ m_tx'[1].req = m_owner]_vars

\* the second request is waiting inside its capture window, its own frame
\* written after the first request's round trip wrote one
C10_Witness ==
    /\ m_spc = "wait" /\ m_req.id = 2 /\ m_owner = 2
    /\ ser_lock = "server" /\ resp_evt
    /\ m_tx # <<>> /\ m_tx[1].req = 2
    /\ m_reply = NoReply

(* Monitor daemon: command-id filtering *)

\* the command id a captured frame carries
FrameCmdId(frame) == RISECommand(frame).cmd_id

\* the reader appends a frame to the capture list in this step
CaptureAppends ==
    Len(resp_frames') = Len(resp_frames) + 1

\* C11: under every interleaving of the reader and the socket server, every
\* frame of a reply carries the command id of the request the reply answers,
\* and no frame with another command id is appended to the capture list
\* while an expected command id is set.
C11_RepliesCarryRequestedId ==
    /\ [](m_reply.ok =>
             \A i \in 1..Len(m_reply.frames) :
                 FrameCmdId(m_reply.frames[i]) = m_req.cmd_id)
    /\ [][(CaptureAppends /\ expected_cmd_id # NoneId) =>
             FrameCmdId(resp_frames'[Len(resp_frames')]) = expected_cmd_id]_vars

(* Monitor daemon: rejected requests *)

\* a request whose JSON is malformed or whose fields are out of range
BadRequest(r) ==
    \/ r.kind \in {"badjson", "badfields"}
    \/ r.kind = "ok" /\ ~PackOk(r.sysid, r.cmd_id, 0)

\* the socket server takes a step
ServerSteps == m_spc' # m_spc

\* C12: a request with malformed JSON or out-of-range fields is answered
\* with {ok: false, error}; serving it performs no operation on the serial
\* handle and leaves the capture flag, the expected command id and the
\* capture buffers as they were.
C12_BadRequestTouchesNothing ==
    /\ []((m_spc = "accept" /\ BadRequest(m_req)) =>
             (m_reply.id = m_req.id /\ ~m_reply.ok))
    /\ [][(ServerSteps /\ BadRequest(m_req')) =>
             UNCHANGED <<m_rx, m_tx, resp_evt, expected_cmd_id, resp_frames,
                         resp_text_lines>>]_vars

-----------------------------------------------------------------------------
(* Properties of the firmware transfer *)

\* the index a data frame carries in bytes 1..2 of its payload
WrittenIdx(w) == UnpackH(w.head, 1)

WrittenLen(w) == w.end - w.start

RECURSIVE SumChunkLens(_, _)
SumChunkLens(ws, k) ==
    IF k > Len(ws) THEN 0
    ELSE (IF ws[k].kind = "chunk" THEN WrittenLen(ws[k]) ELSE 0)
         + SumChunkLens(ws, k + 1)

\* ceil(S / C)
CeilDiv(S, C) == IF S % C = 0 THEN S \div C ELSE S \div C + 1

\* every _send_wait_ack call made so far returned True: one call for the
\* metadata and one for each chunk below the loop index
AllAckedFirstSend ==
    /\ fw_pc \in {"chunk", "complete"}
    /\ fw_resets = 1 + fw_idx

\* C13: when every frame is acknowledged on its first send, the frames
\* written are one metadata frame, then the data frames with the indices
\* 0, 1, ... in increasing order, each once, contiguous chunks of at most
\* max_chunk bytes; at completion there are ceil(S / max_chunk) of them and
\* their chunk lengths sum to S.
C13_FrameSequence ==
    AllAckedFirstSend =>
        /\ max_chunk = 1011
        /\ Len(fw_writes) = 1 + fw_idx
        /\ fw_writes[1].kind = "meta"
        /\ fw_writes[1].head[1] = 0
        /\ WrittenIdx(fw_writes[1]) = CeilDiv(fw_in.size, max_chunk)
        /\ \A i \in 1..fw_idx :
              /\ fw_writes[i + 1].kind = "chunk"
              /\ fw_writes[i + 1].head[1] = 1
              /\ WrittenIdx(fw_writes[i + 1]) = i - 1
              /\ fw_writes[i + 1].start = (IF i = 1 THEN 0 ELSE fw_writes[i].end)
              /\ WrittenLen(fw_writes[i + 1]) \in 1..max_chunk
        /\ fw_pc = "complete" =>
              /\ fw_idx = CeilDiv(fw_in.size, max_chunk)
              /\ SumChunkLens(fw_writes, 1) = fw_in.size
              /\ fw_sent = fw_in.size

C13_Witness ==
    /\ fw_pc = "complete" /\ AllAckedFirstSend
    /\ fw_in.size = MaxFwPackets * max_chunk - 33
    /\ Len(fw_writes) = 1 + MaxFwPackets
    /\ WrittenIdx(fw_writes[Len(fw_writes)]) = MaxFwPackets - 1

\* how many times the data frame with index i was written
TimesWritten(i) ==
    Cardinality({k \in 1..Len(fw_writes) :
                    fw_writes[k].kind = "chunk" /\ WrittenIdx(fw_writes[k]) = i})

\* how many times the metadata frame was written
MetaWritten ==
    Cardinality({k \in 1..Len(fw_writes) : fw_writes[k].kind = "meta"})

\* send_orbfix_zip has returned, or was left by an exception
FwOver == fw_pc \in {"aborted", "complete", "raised"}

\* C14: a data frame is written at most twice, the second time only as the
\* one retry of a failed first send; a failed retry ends the transfer, and
\* after the end nothing is written, so no frame with that or a higher index
\* follows; the indices written never decrease.
C14_ChunkRetryPolicy ==
    /\ [](\A i \in 0..MaxFwPackets : TimesWritten(i) <= 2)
    /\ [](\A k \in 2..Len(fw_writes) :
             fw_writes[k - 1].kind = "chunk" =>
                 WrittenIdx(fw_writes[k - 1]) <= WrittenIdx(fw_writes[k]))
    /\ [](fw_pc = "retry" => (fw_in.retry_once /\ TimesWritten(fw_idx) <= 1))
    /\ [](FwOver => ~ENABLED FwNext)
    /\ [][(fw_pc = "chunk" /\ fw_pc' \in {"retry", "aborted"}) =>
             fw_pc' = (IF fw_in.retry_once THEN "retry" ELSE "aborted")]_vars
    /\ [][fw_pc = "retry" => fw_pc' \in {"chunk", "aborted", "raised"}]_vars
    /\ [][(fw_pc = "retry" /\ fw_pc' = "chunk") =>
             (fw_ack'.ok /\ fw_idx' = fw_idx + 1)]_vars

C14_Witness ==
    /\ fw_pc = "aborted" /\ fw_in.retry_once
    /\ fw_idx = 1 /\ TimesWritten(1) = 2 /\ TimesWritten(0) = 1
    /\ fw_in.size = MaxFwPackets * max_chunk - 33

\* C15: the metadata frame is written at most once and before any data
\* frame; when it is not acknowledged (NAK, timeout, write or encode error)
\* the transfer ends at once, without a data frame.
C15_MetaNotRetried ==
    /\ [](MetaWritten <= 1)
    /\ [](\A k \in 1..Len(fw_writes) : fw_writes[k].kind = "meta" <=> k = 1)
    /\ []((fw_pc = "aborted" /\ fw_idx = 0 /\ TimesWritten(0) = 0) =>
             (Len(fw_writes) <= 1 /\ ~ENABLED FwNext))
    /\ [][fw_pc = "meta" =>
             \/ fw_pc' = "chunk" /\ fw_ack'.ok /\ Len(fw_writes') = 1
             \/ fw_pc' \in {"aborted", "raised"} /\ Len(fw_writes') <= 1]_vars

C15_Witness ==
    /\ fw_pc = "aborted" /\ Len(fw_writes) = 1 /\ fw_writes[1].kind = "meta"
    /\ ~fw_ack.ok /\ fw_ack.code = -1 /\ Len(fw_ack.parsed) = 1

\* the payload of a frame handed to _parse_ack_frame
AckPayload(frame) == Slice(frame, 9, Len(frame) - 1)

\* C16: a response with an empty payload is an ACK; with a payload of at
\* least 3 bytes it is an ACK exactly when the first byte is 0, and its code
\* is bytes 1..2 big-endian and its message the remaining bytes; with a
\* payload of 1 or 2 bytes it is not an ACK.
C16_AckInterpretation ==
    \A k \in 1..Len(fw_ack.parsed) :
        LET p == AckPayload(fw_ack.parsed[k].frame)
            v == fw_ack.parsed[k].v
        IN  /\ Len(p) = 0 => v.ok
            /\ Len(p) >= 3 =>
                  /\ v.ok <=> p[1] = 0
                  /\ v.code = UnpackH(p, 1)
                  /\ Len(v.msg) = Len(p) - 3
                  /\ \A i \in 1..Len(v.msg) :
                        v.msg[i] = (IF p[3 + i] < 128 THEN p[3 + i] ELSE 65533)
            /\ Len(p) \in {1, 2} => ~v.ok

C16_Witness ==
    /\ Len(fw_ack.parsed) = 1
    /\ Len(AckPayload(fw_ack.parsed[1].frame)) = 5
    /\ ~fw_ack.parsed[1].v.ok
    /\ fw_ack.parsed[1].v.code = 258
    /\ fw_ack.parsed[1].v.msg = <<69, 65533>>

\* C17: when the packet count exceeds 65535 the upload ends before anything
\* is done on the serial handle: no frame written, no input-buffer reset;
\* a blob of exactly 65535 chunks is not refused.
C17_TooManyPackets ==
    /\ CeilDiv(fw_in.size, max_chunk) > 65535 =>
          /\ fw_pc \in {"check", "aborted"}
          /\ fw_writes = <<>>
          /\ fw_resets = 0
    /\ ~TooManyPackets(total_packets(65535 * max_chunk))

C17_Witness ==
    /\ fw_pc = "aborted"
    /\ fw_in.size = MAX_PACKET_COUNT * max_chunk + 1
    /\ fw_writes = <<>> /\ fw_resets = 0

-----------------------------------------------------------------------------
(* Wire layout *)

\* CRC-16 with polynomial 0x1021 and initial value 0, most significant bit
\* first, by the byte-wise shift register: the byte is xored into the high
\* half of the register, which is then shifted eight times
RECURSIVE RefCrcBits(_, _)
RefCrcBits(reg, n) ==
    IF n = 0 THEN reg
    ELSE LET r2 == IF reg >= 32768
                   THEN Xor16((reg * 2) % 65536, 4129)
                   ELSE (reg * 2) % 65536
         IN  IF r2 >= 0 THEN RefCrcBits(r2, n - 1) ELSE 0

RECURSIVE RefCrc16(_, _, _)
RefCrc16(reg, data, k) ==
    IF k > Len(data) THEN reg
    ELSE LET r2 == RefCrcBits(Xor16(reg, data[k] * 256), 8)
         IN  IF r2 >= 0 THEN RefCrc16(r2, data, k + 1) ELSE 0

\* the frame riseprotocol_encode returned, before anything damages it
Encoded == c_pc = "encoded" /\ c_tamper.kind = "none"

\* C18: riseprotocol_encode returns 9 + N + 1 bytes: 0x52, 0x53, the CRC
\* big-endian, the subsystem id, the command id big-endian, the payload
\* length big-endian, the payload, 0x0A; the CRC field is the CRC-16
\* (polynomial 0x1021, initial value 0) of bytes 4 .. 9+N-1 and of nothing
\* else.
C18_WireLayout ==
    Encoded =>
        LET N == Len(c_payload)
        IN  /\ Len(c_buf) = 9 + N + 1
            /\ c_buf[1] = 82 /\ c_buf[2] = 83
            /\ c_buf[3] * 256 + c_buf[4] = RefCrc16(0, SubSeq(c_buf, 5, 9 + N), 1)
            /\ c_buf[5] = c_sys
            /\ c_buf[6] * 256 + c_buf[7] = c_cmd
            /\ c_buf[8] * 256 + c_buf[9] = N
            /\ SubSeq(c_buf, 10, 9 + N) = c_payload
            /\ c_buf[9 + N + 1] = 10
            /\ \A i \in 1..Len(c_buf) : c_buf[i] \in 0..255
            /\ (c_cmd = 1 /\ c_sys = 106 /\ N = 0) =>
                  c_buf = <<82, 83, 104, 66, 106, 0, 1, 0, 0, 10>>

C18_Witness ==
    /\ Encoded /\ c_cmd = 65535 /\ c_sys = 0
    /\ Len(c_payload) = MaxPayloadLen
    /\ c_buf[9 + MaxPayloadLen + 1] = 10

-----------------------------------------------------------------------------
(* Parser buffer bound *)

\* C19: whatever is fed to a reset parser, no call raises an index error:
\* the cursor of every store is below RISE_MSG_SIZE, and a frame whose
\* length the size check accepted fits in the buffer with its EOL byte.
C19_NoIndexError ==
    /\ ~f_raised
    /\ parser.state # "ST_WAIT_SYNC1" => parser.pos < RISE_MSG_SIZE
    /\ f_pc # "raised"

-----------------------------------------------------------------------------
(* Second sync byte *)

\* C20: in ST_WAIT_SYNC2 a byte other than 0x53, a second 0x52 included,
\* resets the parser to ST_WAIT_SYNC1 and is dropped, not taken as the first
\* byte of a frame: after 0x52 and such a byte the parser is reset and has
\* returned 0, and a valid frame that directly follows one stray 0x52 is
\* never emitted.
C20_Sync2MismatchDrops ==
    f_scn.kind = "stray" =>
        /\ ~f_raised
        /\ f_idx = 1 => parser.state = "ST_WAIT_SYNC2"
        /\ (f_idx = 2 /\ Stream(f_scn)[2] # HEADER_S) =>
              /\ Cursor(parser) = <<"ST_WAIT_SYNC1", 0, 0>>
              /\ f_ret = 0
        /\ f_scn.noise = <<HEADER_R>> =>
              /\ f_frames = <<>>
              /\ \A i \in 1..Len(f_rets) : f_rets[i] = 0
              /\ f_idx = 3 => parser.state = "ST_WAIT_SYNC1"

C20_Witness ==
    /\ f_scn.kind = "stray" /\ f_scn.noise = <<HEADER_R>>
    /\ Len(f_scn.body) = 9 + MaxPayloadLen + 1
    /\ f_idx = Len(Stream(f_scn))
    /\ f_frames = <<>>

-----------------------------------------------------------------------------
(* Terminator mismatch *)

\* C21: in ST_READ_EOL a byte other than 0x0A makes the call return 0 and
\* resets the parser to ST_WAIT_SYNC1 with cursor 0; no frame is emitted for
\* the header and payload read so far, and the byte is not taken as a sync
\* byte: every later byte is handled as by a fresh parser.
C21_BadEolDiscards ==
    f_scn.kind = "badeol" =>
        /\ ~f_raised
        /\ f_idx = Len(f_scn.body) - 1 => parser.state = "ST_READ_EOL"
        /\ f_idx <= Len(f_scn.body) =>
              /\ f_frames = <<>>
              /\ \A i \in 1..Len(f_rets) : f_rets[i] = 0
        /\ f_idx = Len(f_scn.body) =>
              /\ f_ret = 0
              /\ Cursor(parser) = <<"ST_WAIT_SYNC1", 0, 0>>
        /\ f_idx >= Len(f_scn.body) =>
              \E fresh \in {FreshRun(NewParser,
                                 SubSeq(f_scn.tail, 1,
                                        f_idx - Len(f_scn.body)), 1, <<>>)} :
                  /\ Cursor(parser) = Cursor(fresh.parser)
                  /\ f_frames = fresh.frames

C21_Witness ==
    /\ f_scn.kind = "badeol"
    /\ f_scn.body[Len(f_scn.body)] = HEADER_R
    /\ Len(f_scn.body) = 9 + MaxPayloadLen + 1
    /\ f_idx = Len(Stream(f_scn))
    /\ f_frames = <<f_scn.tail>>

-----------------------------------------------------------------------------
(* Return contract of the parser *)

NonZero(x) == x # 0

\* the frames of a back-to-back scenario that were wholly fed after n bytes
WhollyFed(scn, n) ==
    (IF n >= Len(scn.noise) THEN <<scn.noise>> ELSE <<>>)
    \o (IF n >= Len(scn.noise) + Len(scn.body) THEN <<scn.body>> ELSE <<>>)
    \o (IF scn.tail # <<>> /\ n >= Len(Stream(scn)) THEN <<scn.tail>> ELSE <<>>)

\* C22: over every byte sequence fed, a call returns a non-zero value only
\* when the parser was in ST_READ_EOL and the byte is 0x0A; the value is
\* 9 + the length declared in the header + 1; right after a non-zero return
\* the parser is in ST_WAIT_SYNC1 with cursor 0 and expected length 0; and
\* k valid frames fed back to back give exactly k non-zero returns, in order.
C22_ReturnContract ==
    /\ [](f_ret # 0 =>
            /\ Cursor(parser) = <<"ST_WAIT_SYNC1", 0, 0>>
            /\ f_ret = 9 + (BufAt(parser.buffer, 7) * 256
                              + BufAt(parser.buffer, 8)) + 1
            /\ BufAt(parser.buffer, f_ret - 1) = EOL)
    /\ [][f_ret' # 0 =>
            /\ parser.state = "ST_READ_EOL"
            /\ Stream(f_scn)[f_idx + 1] = EOL
            /\ f_ret' = 9 + parser.expected_length + 1]_vars
    /\ [](f_scn.kind = "multi" =>
            /\ ~f_raised
            /\ f_frames = WhollyFed(f_scn, f_idx)
            /\ \E nz \in {SelectSeq(f_rets, NonZero)} :
                   /\ Len(nz) = Len(f_frames)
                   /\ \A i \in 1..Len(nz) : nz[i] = Len(f_frames[i]))

C22_Witness ==
    /\ f_scn.kind = "multi" /\ f_scn.tail # <<>>
    /\ f_idx = Len(Stream(f_scn))
    /\ Len(SelectSeq(f_rets, NonZero)) = 3
    /\ f_ret = 9 + 2 + 1

-----------------------------------------------------------------------------
(* Which port an attempt opens *)

\* the step of an attempt that opens a port
Opens == sr_pc = "loop" /\ sr_pc' = "opened"

\* C23: the first attempt of send_and_receive opens the port path the caller
\* gave; a port is opened by VID/PID only on an attempt after the first and
\* only when a VID/PID pair is configured.
C23_FirstAttemptOpensPath ==
    /\ [][(Opens /\ attempt = 0) =>
             sr_opens'[Len(sr_opens')] = "path"]_vars
    /\ [][(Opens /\ sr_opens'[Len(sr_opens')] = "vidpid") =>
             (attempt >= 1 /\ sr_in.reopen_vid_pid)]_vars

-----------------------------------------------------------------------------
(* What read_frames returns *)

RECURSIVE SlicesAt(_, _, _)

\* the bytes of the stream that end where a call returned a non-zero value,
\* as many bytes as the value returned, for each such call in order
SlicesAt(stream, rets, k) ==
    IF k > Len(rets) THEN <<>>
    ELSE IF rets[k] = 0 THEN SlicesAt(stream, rets, k + 1)
    ELSE <<SubSeq(stream, k - rets[k] + 1, k)>>
             \o SlicesAt(stream, rets, k + 1)

\* C24: read_frames returns every frame the parser completes from the bytes
\* read, in arrival order, whatever their command ids and without dropping
\* or merging equal frames; when a read error ends the loop after some
\* bytes, the frames completed within those bytes are returned.
C24_ReadFramesCollectsAll ==
    (f_scn.kind \notin {"long", "none"} /\ ~f_raised) =>
        \E r \in {read_frames(SubSeq(Stream(f_scn), 1, f_idx))} :
            /\ ~r.raised
            /\ r.frames = SlicesAt(Stream(f_scn), f_rets, 1)
            /\ Len(r.frames) = Len(SelectSeq(f_rets, NonZero))
            /\ f_scn.kind = "multi" => r.frames = WhollyFed(f_scn, f_idx)

C24_Witness ==
    /\ f_scn.kind = "multi"
    /\ f_scn.tail # <<>>
    /\ f_scn.noise = f_scn.body
    /\ UnpackH(f_scn.tail, 5) # UnpackH(f_scn.body, 5)
    /\ f_idx = Len(Stream(f_scn))
    /\ read_frames(Stream(f_scn)).frames = <<f_scn.noise, f_scn.body, f_scn.tail>>

-----------------------------------------------------------------------------
(* Validity of the frames send_and_receive returns *)

Decodes(frame) == riseprotocol_decode(frame).err = 0

\* C25: every frame of the list send_and_receive returns passes
\* riseprotocol_decode, and an attempt that collected no frame passing it
\* does not end the retry loop while attempts remain.
C25_ReturnedFramesDecode ==
    /\ sr_pc = "done" =>
           \A i \in 1..Len(sr_result) : Decodes(sr_result[i])
    /\ (sr_pc = "check" /\ ~Exhausted(attempt, sr_in.retries)
           /\ \A i \in 1..Len(frames) : ~Decodes(frames[i])) =>
           ~ENABLED SrReturnFrames

-----------------------------------------------------------------------------
(* Capture window of the monitor daemon *)

\* C26: a frame the reader completes while the capture flag is clear is
\* discarded: under every interleaving of reader and server steps, the
\* reader appends to resp_frames only at a moment when resp_evt is set.
C26_AppendOnlyWhileCapturing ==
    [][CaptureAppends => resp_evt]_vars

-----------------------------------------------------------------------------
(* Order of the steps of a round trip *)

\* the statements of the round trip in program order, then the reply
RoundTripOrder ==
    <<"flush", "drain", "clear", "setexp", "setevt", "write", "wait",
      "clrexp", "reply">>

RankOf(pc) == CHOOSE i \in 1..Len(RoundTripOrder) : RoundTripOrder[i] = pc

Drains == m_spc = "drain" /\ m_spc' = "clear"
Clears == m_spc = "clear" /\ m_spc' = "setexp"
EnablesCapture == m_spc = "setevt" /\ m_spc' = "write"
WritesFrame == m_spc = "write" /\ m_spc' = "wait"
SendsReply == m_spc = "reply" /\ m_spc' = "accept"

\* C27: in one round trip the stale bytes are drained and the capture
\* buffers cleared before capture is enabled, the expected command id is
\* set before capture is enabled, capture is enabled before the frame is
\* written, and capture is disabled before the reply is built and sent.
C27_RoundTripOrder ==
    /\ [][(m_spc' # m_spc /\ m_spc \in {"flush", "drain", "clear", "setexp",
                                        "setevt", "write", "wait", "clrexp"}) =>
             \/ m_spc' = RoundTripOrder[RankOf(m_spc) + 1]
             \/ m_spc' = "accept" /\ ~m_reply'.ok]_vars
    /\ [][Drains => (m_rx' = <<>> /\ m_owner = 0)]_vars
    /\ [][Clears => (/\ resp_frames' = <<>> /\ resp_text_lines' = <<>>
                     /\ m_owner = 0)]_vars
    /\ [][EnablesCapture =>
             /\ expected_cmd_id = m_req.cmd_id
             /\ resp_evt' /\ m_owner = 0 /\ m_owner' = m_req.id
             /\ \A i \in 1..Len(m_tx) : m_tx[i].req # m_req.id]_vars
    /\ [][WritesFrame =>
             /\ resp_evt /\ m_owner = m_req.id
             /\ m_tx'[Len(m_tx')].req = m_req.id]_vars
    /\ [][SendsReply =>
             /\ ~resp_evt /\ m_owner = 0
             /\ m_reply'.frames = resp_frames]_vars

C27_Witness ==
    /\ m_reply.ok /\ m_reply.id = m_req.id /\ m_req.id = MaxRequests
    /\ m_spc = "accept"
    /\ \E i \in 1..Len(m_tx) : m_tx[i].req = m_req.id

-----------------------------------------------------------------------------
(* Capture state outside a round trip *)

\* C28: whenever the serial mutex is not held, the capture flag is clear and
\* the expected command id is unset, also after a request whose round trip
\* ended with an error raised while encoding or writing the frame.
C28_IdleCaptureOff ==
    ser_lock = "free" => (~resp_evt /\ expected_cmd_id = NoneId)

-----------------------------------------------------------------------------
(* Stale frames *)

\* C29: under every interleaving of the reader and the server, the reply to
\* a request holds only frames the reader completed after that request
\* enabled capture and before it disabled it: no frame completed during an
\* earlier request's window, or while capture was off, is in a later reply.
C29_NoStaleFrames ==
    [][SendsReply =>
          /\ Len(resp_wins) = Len(m_reply'.frames)
          /\ \A i \in 1..Len(resp_wins) : resp_wins[i] = m_req.id]_vars

-----------------------------------------------------------------------------
(* Delivery of the response *)

\* a well-formed frame carrying command id c
AnswerTo(f, c) == Decodes(f) /\ FrameCmdId(f) = c

\* C30: when the only bytes the reader read while capture was enabled for a
\* request are one valid frame with the requested command id, that frame is
\* in the reply, whatever the reader processed before the request and
\* whatever byte values the frame holds.
C30_ResponseDelivered ==
    [][(SendsReply /\ Len(m_read) = 1 /\ AnswerTo(m_read[1], m_req.cmd_id)) =>
          \E i \in 1..Len(m_reply'.frames) : m_reply'.frames[i] = m_read[1]]_vars

-----------------------------------------------------------------------------
(* ASCII lines and frames in the reader *)

RECURSIVE InLineAfter(_, _, _)

\* whether the reader is inside a line after the first n bytes of a chunk:
\* a line starts at a '$' met outside a line and ends with the next newline
InLineAfter(chunk, n, k) ==
    IF k = 0 THEN FALSE
    ELSE LET before == InLineAfter(chunk, n, k - 1)
         IN  IF before THEN chunk[k] # 10 ELSE chunk[k] = 36

\* the bytes of the chunk the reader has gone through
Consumed == Len(m_read[1]) - Len(m_chunk)

\* the byte of this step belongs to a line
LineByte ==
    \/ InLineAfter(m_read[1], Consumed, Consumed)
    \/ Head(m_chunk) = 36

\* C31: from a '$' met outside a line up to and including the next newline
\* every byte is appended to the line buffer and none goes to the parser,
\* whose state, cursor and expected length stay as they were across the
\* line; every byte outside such a line goes to the parser.
C31_AsciiDemux ==
    /\ [](m_rpc = "bytes" =>
             ascii_mode = InLineAfter(m_read[1], Consumed, Consumed))
    /\ [][(m_rpc = "bytes" /\ LineByte) =>
             /\ m_parser' = m_parser
             /\ m_buf' = Append(m_buf, Head(m_chunk))
             /\ m_frame' = <<>>]_vars
    /\ [][(m_rpc = "bytes" /\ ~LineByte) =>
             m_parser' = fsm_decode_byte(m_parser, Head(m_chunk)).parser]_vars

C31_Witness ==
    /\ m_rpc = "bytes" /\ m_chunk = <<>>
    /\ m_read[1] = riseprotocol_encode(1, 106, <<36>>) \o <<36, 82, 83, 10>>
    /\ m_parser.state = "ST_READ_PAYLOAD"
    /\ m_buf = <<36, 10>> \o <<36, 82, 83, 10>>

-----------------------------------------------------------------------------
(* Routing of text lines *)

\* the reader takes one line out of its buffer
TakesLine == m_rpc = "lines" /\ m_buf' # m_buf

\* that line, decoded and stripped
LineTxt == RStrip(DecodeAscii(SubSeq(m_buf, 1, FindNl(m_buf, 1))))

Forwarded(txt) == m_fwd' = <<txt>> /\ resp_text_lines' = resp_text_lines

Captured(txt) == resp_text_lines' = Append(resp_text_lines, txt) /\ m_fwd' = m_fwd

\* C32: a completed line that begins with '$' is forwarded and never
\* appended to the captured text, whether or not capture is active; a
\* completed non-empty line that does not begin with '$' is appended to the
\* captured text exactly when the capture flag is set at the time it is
\* processed, and is forwarded otherwise.
C32_LineRouting ==
    /\ [][(TakesLine /\ LineTxt # <<>>) =>
             IF LineTxt[1] = 36 THEN Forwarded(LineTxt)
             ELSE IF resp_evt THEN Captured(LineTxt)
             ELSE Forwarded(LineTxt)]_vars
    /\ [][Len(resp_text_lines') > Len(resp_text_lines) =>
             TakesLine /\ resp_evt /\ LineTxt # <<>> /\ LineTxt[1] # 36]_vars
    /\ [](\A i \in 1..Len(resp_text_lines) : resp_text_lines[i][1] # 36)

C32_Witness ==
    /\ resp_evt
    /\ resp_text_lines = <<(<<79, 75>>)>>
    /\ m_fwd = <<(<<36, 71>>)>>

-----------------------------------------------------------------------------
(* Shutdown *)

\* C33: once the stop flag is set the reader loop and the server loop each
\* eventually end; a server that is in the wait loop of a round trip with
\* its deadline not reached waits no further tick and leaves before the
\* deadline; the main thread then closes the serial handle and removes the
\* socket file and ends, also when the file is already gone.
C33_Shutdown ==
    /\ stop_evt ~> (m_rpc = "exit")
    /\ stop_evt ~> (m_spc = "exit")
    /\ [][(stop_evt /\ m_spc = "wait") => m_ticks' = m_ticks]_vars
    /\ (stop_evt /\ m_spc = "wait" /\ m_ticks < MaxTicks)
          ~> (m_spc = "exit" /\ m_ticks < MaxTicks)
    /\ stop_evt ~> (m_main = "stopped" /\ ~ser_open /\ ~sock_file)
    /\ [][(m_main = "join" /\ ~sock_file /\ m_main' # m_main) =>
             m_main' = "stopped"]_vars

C33_Witness ==
    /\ m_rpc = "exit" /\ m_spc = "exit" /\ m_main = "stopped"
    /\ m_tx # <<>> /\ m_ticks < MaxTicks
    /\ m_reply.id = m_nreq /\ m_reply.ok /\ m_reply.frames # <<>>

-----------------------------------------------------------------------------
(* Firmware transfer: the answer to a send *)

\* a NAK: a frame that decodes, with a payload of at least 3 bytes whose
\* status byte is not 0
IsNak(frame) ==
    /\ RISECommand_raises(frame) = "none"
    /\ Len(RISECommand(frame).payload) >= 3
    /\ RISECommand(frame).payload[1] # 0

\* the first frame of the last ack window was a NAK
FirstFrameIsNak == fw_ack.parsed # <<>> /\ IsNak(fw_ack.parsed[1].frame)

\* C34: when the first response frame in the ack window is a NAK, the send
\* fails with that NAK's code and message, and no later frame of the same
\* window turns it into a success.
C34_FirstNakDecides ==
    FirstFrameIsNak =>
        /\ ~fw_ack.ok
        /\ fw_ack.code = AckVerdict(RISECommand(fw_ack.parsed[1].frame).payload).code
        /\ fw_ack.msg = AckVerdict(RISECommand(fw_ack.parsed[1].frame).payload).msg
        /\ fw_pc # "chunk"

-----------------------------------------------------------------------------
(* Firmware transfer: stop and wait *)

\* the frame written k-th is a data frame with index i
IsChunk(k, i) == fw_writes[k].kind = "chunk" /\ WrittenIdx(fw_writes[k]) = i

\* the data indices some send of which was acknowledged
AckedIdx ==
    {WrittenIdx(fw_writes[k]) :
        k \in {j \in 1..Len(fw_writes) : fw_writes[j].kind = "chunk" /\ fw_acked[j]}}

\* C35: data frame 0 is written only after the metadata frame was
\* acknowledged, data frame i >= 1 only after data frame i-1 was
\* acknowledged; the acknowledged data indices are always a prefix 0..k-1;
\* a retry carries the same index and the same chunk as the first send.
C35_StopAndWait ==
    /\ Len(fw_acked) = Len(fw_writes)
    /\ \A k \in 1..Len(fw_writes) :
          /\ IsChunk(k, 0) =>
                \E j \in 1..(k - 1) : fw_writes[j].kind = "meta" /\ fw_acked[j]
          /\ \A i \in 1..MaxFwPackets :
                IsChunk(k, i) => \E j \in 1..(k - 1) : IsChunk(j, i - 1) /\ fw_acked[j]
          /\ \A j \in 1..(k - 1) :
                (fw_writes[k].kind = "chunk" /\ IsChunk(j, WrittenIdx(fw_writes[k])))
                    => (fw_writes[k] = fw_writes[j] /\ ~fw_acked[j] /\ j = k - 1)
    /\ AckedIdx = 0..(Cardinality(AckedIdx) - 1)
    /\ fw_idx = Cardinality(AckedIdx)

C35_Witness ==
    /\ fw_pc = "complete"
    /\ fw_in.size = MaxFwPackets * max_chunk - 33
    /\ TimesWritten(1) = 2
    /\ AckedIdx = 0..(MaxFwPackets - 1)

-----------------------------------------------------------------------------
(* Firmware transfer: the command id of an answer *)

\* C36: a frame received in the ack window counts as the acknowledgement of
\* the frame just sent only if its command id is the file-transfer id 5; a
\* frame of another command id does not advance the transfer.
C36_AckCommandId ==
    /\ fw_ack.ok => FrameCmdId(fw_ack.frame) = FILE_TRANSFER_CMD
    /\ \A k \in 1..Len(fw_ack.parsed) :
          FrameCmdId(fw_ack.parsed[k].frame) # FILE_TRANSFER_CMD
              => ~VerdictReturned(fw_ack.parsed[k].v)

-----------------------------------------------------------------------------
(* Precedence of the validations of riseprotocol_decode *)

\* the buffer decoded carries the set F of faults
DecodedWith(F) ==
    c_pc = "decoded" /\ c_tamper.kind = "damage" /\ c_tamper.faults = F

\* the code of the first check, in the order too short, length mismatch,
\* header, subsystem id, CRC, that a buffer with the faults F fails
FirstFailure(F, sys) ==
    IF "short" \in F \/ "len" \in F THEN -1
    ELSE IF "sync" \in F \/ "eol" \in F THEN -2
    ELSE IF "sys" \in F \/ sys = 0 THEN -3
    ELSE IF "crc" \in F THEN -4
    ELSE 0

\* C37: the checks are applied in the order too short, length mismatch,
\* header (sync and EOL), subsystem id, CRC, and the outcome is that of the
\* first check that fails: a buffer of the right size with a wrong sync
\* byte, an unknown subsystem id and a wrong CRC is a header failure, one
\* with good sync and EOL, an unknown subsystem id and a wrong CRC is an
\* unknown subsystem.
C37_ValidationPrecedence ==
    (c_pc = "decoded" /\ c_tamper.kind = "damage") =>
        /\ c_res.err = FirstFailure(c_tamper.faults, c_sys)
        /\ "short" \in c_tamper.faults =>
              RISECommand_raises(c_buf) = "Frame too short"
        /\ ("len" \in c_tamper.faults /\ "short" \notin c_tamper.faults) =>
              RISECommand_raises(c_buf) = "Length mismatch"
        /\ c_tamper.faults = {"sync", "sys", "crc"} => c_res.err = -2
        /\ c_tamper.faults = {"sys", "crc"} => c_res.err = -3

C37_Witness ==
    /\ DecodedWith({"sync", "sys", "crc"})
    /\ c_sys = ORBFIX_CTL_SUBSYSTEM_ID
    /\ c_payload # <<>>
    /\ c_res.err = -2

-----------------------------------------------------------------------------
(* State and cursor of the parser *)

\* the cursor each header state goes with
HeaderCursor ==
    [ST_WAIT_SYNC2 |-> 1, ST_READ_CRC_0 |-> 2, ST_READ_CRC_1 |-> 3,
     ST_READ_SUBSYS |-> 4, ST_READ_CMD_ID_0 |-> 5, ST_READ_CMD_ID_1 |-> 6,
     ST_READ_LEN_0 |-> 7, ST_READ_LEN_1 |-> 8]

StateCursorOk(p) ==
    /\ p.state = "ST_WAIT_SYNC1" => (p.pos = 0 /\ p.expected_length = 0)
    /\ p.state \in DOMAIN HeaderCursor => p.pos = HeaderCursor[p.state]
    /\ p.state = "ST_READ_PAYLOAD" =>
          (9 <= p.pos /\ p.pos < 9 + p.expected_length)
    /\ p.state = "ST_READ_EOL" => p.pos = 9 + p.expected_length
    /\ p.state \in {"ST_WAIT_SYNC1", "ST_READ_PAYLOAD", "ST_READ_EOL"}
                       \cup DOMAIN HeaderCursor

\* C38: after every call of _fsm_decode_byte, on any byte sequence,
\* WAIT_SYNC1 goes with cursor 0 and expected length 0, WAIT_SYNC2 with
\* cursor 1, READ_CRC_0 .. READ_LEN_1 with cursors 2 .. 8, READ_PAYLOAD with
\* 9 <= cursor < 9 + expected length, READ_EOL with cursor = 9 + expected
\* length.
C38_StateCursor == StateCursorOk(parser)

C38_Witness ==
    /\ f_idx > 0
    /\ f_frames # <<>>
    /\ parser.state = "ST_READ_PAYLOAD"
    /\ parser.expected_length = 2
    /\ parser.pos = 10

====
